---- MODULE Spec2Model ----
(***************************************************************************)
(* Upload session coordinator of memenow-storage-cf-workers.               *)
(*                                                                         *)
(* Two iterations of the coordinator are modelled, each from its source:   *)
(*   variant = "d1"      the D1 handlers   (src/src/handlers/upload.rs,    *)
(*                       src/src/database.rs)                              *)
(*   variant = "tracker" the Durable Object tracker                        *)
(*                       (src/src/durable_objects/upload_tracker.rs)       *)
(* A deployment runs one of them; Init chooses which.                      *)
(*                                                                         *)
(* Every handler is a sequence of steps, one per await on the session      *)
(* store or on the R2 backend.  Under Spec the handlers run one at a time; *)
(* under SpecConc the steps of two requests interleave.                    *)
(***************************************************************************)
EXTENDS Integers, Sequences, FiniteSets, Bags, TLC

VARIABLES
    variant,        \* which iteration of the coordinator is deployed
    now,            \* Utc::now(), in ticks
    uploads,        \* D1 table `uploads`: upload_id -> row
    upload_chunks,  \* D1 table `upload_chunks`: a bag of rows
    storage,        \* Durable Object storage: upload_id -> UploadMetadata
    r2,             \* R2 multipart transfers: transfer id -> state
    objects,        \* R2 objects the first UploadTracker stores chunks as
    failed_parts,   \* history: part list of the last failed finalize call
    h               \* the request handlers in flight: process -> frame

vars == <<variant, objects, now, uploads, upload_chunks, storage, r2, failed_parts, h>>

(***************************************************************************)
(* Bounds of the model and program constants.                              *)
(***************************************************************************)
MaxTransfers == 2
MaxIdx == 2
MaxClock == 1
MaxConcIdx == 3
MaxProgressChunks == 30
MaxObjectChunks == 2
MaxRecords == 2
MAX_CHUNK_INDEX == 10000
DEFAULT_MAX_FILE_SIZE == 10240
DEFAULT_CHUNK_SIZE == 150

Procs == {"p1", "p2"}
\* The session ids of the model: the sessions are separate rows and keys, and
\* one session is followed.
UploadIds == {1}
\* X-Chunk-Index values a caller sends: small indices and one over the limit.
ChunkIndexInputs == (0..MaxIdx) \cup {MAX_CHUNK_INDEX + 1}
\* Chunk bodies by their length; 0 is the empty body.
BodyInputs == {0, 1, 2}
\* Declared total_size values (sizes are in MiB: the limit is 10 GiB, a chunk
\* 150 MiB): empty, small, the limit itself and the first one over the limit.
TotalSizeInputs == {0, 1, DEFAULT_MAX_FILE_SIZE, DEFAULT_MAX_FILE_SIZE + 1}

(***************************************************************************)
(* Data model.                                                             *)
(***************************************************************************)
NoRow == [status |-> "Absent"]
NoEtag == <<>>
Terminal == {"Completed", "Cancelled"}

\* UploadMetadata: a D1 `uploads` row joined with its chunk indices, and the
\* value the tracker keeps in Durable Object storage.  r2_upload_id is a
\* transfer id, 0 standing for the empty string.
UploadMetadata(status, total_size, chunks, r2_upload_id, created_at, updated_at) ==
    [status |-> status, total_size |-> total_size, chunks |-> chunks,
     r2_upload_id |-> r2_upload_id, created_at |-> created_at,
     updated_at |-> updated_at]

UploadChunkRecord(chunk_index, chunk_size, etag) ==
    [chunk_index |-> chunk_index, chunk_size |-> chunk_size, etag |-> etag]

\* The integrity tag R2 returns for a part: it depends on the part's number
\* and on the bytes sent.
Etag(part_number, bytes) == <<"etag", part_number, bytes>>

\* A sequence sorted ascending, duplicates kept (Vec::sort_unstable).
RECURSIVE Insert(_, _)
Insert(x, s) ==
    IF s = <<>> THEN <<x>>
    ELSE IF x <= Head(s) THEN <<x>> \o s
    ELSE <<Head(s)>> \o Insert(x, Tail(s))

RECURSIVE sort_unstable(_)
sort_unstable(s) ==
    IF s = <<>> THEN <<>> ELSE Insert(Head(s), sort_unstable(Tail(s)))

contains(s, x) == \E k \in 1..Len(s) : s[k] = x

(***************************************************************************)
(* Handler frames.                                                         *)
(***************************************************************************)
IdleFrame ==
    [pc |-> "idle", op |-> "none", upload_id |-> 0, chunk_index |-> 0,
     bytes |-> 0, total_size |-> 0, parts |-> <<>>, metadata |-> NoRow,
     etag |-> NoEtag, result |-> "", calls |-> 0, progress |-> -1,
     user_role |-> ""]

\* A worker takes a request when it runs none: its frame is the initial one,
\* or holds the response of the request it ran last.
Ready(p) == h[p].pc \in {"idle", "done"}

Goto(p, label) == h' = [h EXCEPT ![p].pc = label]

\* The handler returns: the frame keeps the request and its response, the
\* handler's locals (the metadata it read, the part list it built) are dropped.
Finish(p, res) ==
    h' = [h EXCEPT ![p].pc = "done", ![p].result = res,
                   ![p].metadata = NoRow, ![p].parts = <<>>]

\* The handler returns after a backend call.
FinishCall(p, res) ==
    h' = [h EXCEPT ![p].pc = "done", ![p].result = res, ![p].calls = @ + 1,
                   ![p].metadata = NoRow, ![p].parts = <<>>]

\* The handler returns a response that carries the session's metadata.
FinishWith(p, res, metadata) ==
    h' = [h EXCEPT ![p].pc = "done", ![p].result = res,
                   ![p].metadata = metadata, ![p].parts = <<>>]

(***************************************************************************)
(* R2 multipart backend (worker::Bucket), as the handlers use it.          *)
(***************************************************************************)
TransferOpen(id) == id \in 1..Len(r2) /\ r2[id] = "open"

\* bucket.create_multipart_upload(key).execute(): a fresh transfer id.
CreateMultipartUpload == r2' = Append(r2, "open")
CanCreateMultipartUpload == Len(r2) < MaxTransfers

(***************************************************************************)
(* DatabaseService (src/src/database.rs).                                  *)
(***************************************************************************)
\* The rows of an upload in `upload_chunks`, each as often as it is stored.
RowsOf(upload_id) ==
    LET rows == {r \in BagToSet(upload_chunks) : r.upload_id = upload_id}
    IN [r \in rows |-> CopiesIn(r, upload_chunks)]

\* ORDER BY chunk_index ASC.
RECURSIVE OrderByChunkIndex(_)
OrderByChunkIndex(rows) ==
    IF rows = EmptyBag THEN <<>>
    ELSE LET r == CHOOSE x \in BagToSet(rows) :
                     \A y \in BagToSet(rows) : x.chunk_index <= y.chunk_index
         IN <<r>> \o OrderByChunkIndex(rows (-) SetToBag({r}))

\* fetch_chunks with the ORDER BY clause left out: the rows come back in an
\* order the query does not fix (here, the reverse one).
fetch_chunks_unordered(upload_id) ==
    LET rows == OrderByChunkIndex(RowsOf(upload_id))
    IN [k \in 1..Len(rows) |->
            UploadChunkRecord(rows[Len(rows) + 1 - k].chunk_index,
                              rows[Len(rows) + 1 - k].chunk_size,
                              rows[Len(rows) + 1 - k].etag)]

\* fetch_chunks: SELECT chunk_index, chunk_size, etag FROM upload_chunks
\* WHERE upload_id = ?1 ORDER BY chunk_index ASC.
fetch_chunks(upload_id) ==
    LET rows == OrderByChunkIndex(RowsOf(upload_id))
    IN [k \in 1..Len(rows) |->
            UploadChunkRecord(rows[k].chunk_index, rows[k].chunk_size, rows[k].etag)]

\* A row of the `uploads` table (struct UploadRow).
UploadRow(status, total_size, r2_upload_id, created_at, updated_at) ==
    [status |-> status, total_size |-> total_size,
     r2_upload_id |-> r2_upload_id, created_at |-> created_at,
     updated_at |-> updated_at]

\* UploadRow::try_into_metadata: the row with the indices of its chunks.
try_into_metadata(row, chunks) ==
    UploadMetadata(row.status, row.total_size,
                   [k \in 1..Len(chunks) |-> chunks[k].chunk_index],
                   row.r2_upload_id, row.created_at, row.updated_at)

\* get_upload with the chunk rows taken in the order fetch_chunks_unordered
\* gives them.
get_upload_unsorted(upload_id) ==
    IF uploads[upload_id] = NoRow THEN NoRow
    ELSE try_into_metadata(uploads[upload_id], fetch_chunks_unordered(upload_id))

\* get_upload that answers a missing row with a default session instead of None.
get_upload_or_default(upload_id) ==
    IF uploads[upload_id] = NoRow
    THEN UploadMetadata("Initiated", 0, <<>>, 0, now, now)
    ELSE try_into_metadata(uploads[upload_id], fetch_chunks(upload_id))

\* get_upload: None, or the row joined with its chunk indices.
get_upload(upload_id) ==
    IF uploads[upload_id] = NoRow THEN NoRow
    ELSE try_into_metadata(uploads[upload_id], fetch_chunks(upload_id))

\* create_upload: INSERT INTO uploads.
create_upload(upload_id, metadata) ==
    uploads' = [uploads EXCEPT ![upload_id] =
                  UploadRow(metadata.status, metadata.total_size,
                            metadata.r2_upload_id, metadata.created_at,
                            metadata.updated_at)]

\* update_upload_status without its WHERE clause: every row is updated.
update_upload_status_all(upload_id, status) ==
    uploads' = [id \in DOMAIN uploads |->
                  IF uploads[id] = NoRow THEN NoRow
                  ELSE [uploads[id] EXCEPT !.status = status,
                                           !.updated_at = now]]

\* update_upload_status that sets the status alone, updated_at left as it is.
update_upload_status_unstamped(upload_id, status) ==
    uploads' = [uploads EXCEPT ![upload_id] =
                  IF @ = NoRow THEN @ ELSE [@ EXCEPT !.status = status]]

\* update_upload_status: UPDATE uploads SET status, updated_at.
update_upload_status(upload_id, status) ==
    uploads' = [uploads EXCEPT ![upload_id] =
                  IF @ = NoRow THEN @
                  ELSE [@ EXCEPT !.status = status, !.updated_at = now]]

\* touch_upload: UPDATE uploads SET updated_at.
touch_upload(upload_id) ==
    uploads' = [uploads EXCEPT ![upload_id] =
                  IF @ = NoRow THEN @ ELSE [@ EXCEPT !.updated_at = now]]

\* record_chunk as a plain INSERT, the ON CONFLICT clause left out.
record_chunk_insert(upload_id, chunk_index, chunk_size, etag) ==
    upload_chunks' =
        upload_chunks (+) SetToBag({[upload_id |-> upload_id,
                                     chunk_index |-> chunk_index,
                                     chunk_size |-> chunk_size, etag |-> etag]})

\* record_chunk: INSERT INTO upload_chunks ... ON CONFLICT(upload_id,
\* chunk_index) DO UPDATE SET chunk_size, etag, uploaded_at.
record_chunk(upload_id, chunk_index, chunk_size, etag) ==
    LET row == [upload_id |-> upload_id, chunk_index |-> chunk_index,
                chunk_size |-> chunk_size, etag |-> etag]
        others == {r \in BagToSet(upload_chunks) :
                      ~(r.upload_id = upload_id /\ r.chunk_index = chunk_index)}
    IN upload_chunks' =
          [r \in others |-> CopiesIn(r, upload_chunks)] (+) SetToBag({row})

(***************************************************************************)
(* collect_part_descriptors (src/src/handlers/upload.rs).                  *)
(***************************************************************************)
PartDescriptor(part_number, etag) == [part_number |-> part_number, etag |-> etag]

HasAllEtags(chunks) == \A k \in 1..Len(chunks) : chunks[k].etag # NoEtag

\* collect_part_descriptors that builds its list from the front: the parts
\* come out in the reverse of the input order.
collect_part_descriptors_reversed(chunks) ==
    [k \in 1..Len(chunks) |->
        PartDescriptor((chunks[Len(chunks) + 1 - k].chunk_index + 1) % 65536,
                       chunks[Len(chunks) + 1 - k].etag)]

\* Defined when every record carries an etag; otherwise the code returns
\* ValidationError (see complete_upload_chunks).
collect_part_descriptors(chunks) ==
    [k \in 1..Len(chunks) |->
        PartDescriptor((chunks[k].chunk_index + 1) % 65536, chunks[k].etag)]

(***************************************************************************)
(* ValidationMiddleware (src/src/middleware.rs).                           *)
(***************************************************************************)
\* validate_file_size with the limit itself rejected too.
validate_file_size_strict(size, max_size) == size < max_size

validate_file_size(size, max_size) == ~(size > max_size)

(***************************************************************************)
(* The D1 handlers (src/src/handlers/upload.rs).                           *)
(***************************************************************************)
D1Unchanged == UNCHANGED <<uploads, upload_chunks>>

\* Uuid::new_v4() / generate_unique_identifier(): an id no session and no
\* other request in flight holds.
FreshId(id) ==
    /\ uploads[id] = NoRow
    /\ storage[id] = NoRow
    /\ \A q \in Procs : ~(h[q].op = "init" /\ h[q].upload_id = id /\ ~Ready(q))
Frozen == UNCHANGED <<variant, objects, now, storage, failed_parts>>

\* Of the metadata they read, upload_chunk, complete_upload and cancel_upload
\* use the status and the R2 transfer (r2_key, r2_upload_id) afterwards.
Used(metadata) ==
    [status |-> metadata.status, r2_upload_id |-> metadata.r2_upload_id]

\* initialize_upload, up to the await on create_multipart_upload.
initialize_upload(p, id, total_size) ==
    /\ variant = "d1"
    /\ Ready(p)
    /\ FreshId(id)
    /\ h' = [h EXCEPT ![p] =
                [IdleFrame EXCEPT
                   !.op = "init", !.upload_id = id, !.total_size = total_size,
                   !.pc = IF validate_file_size(total_size, DEFAULT_MAX_FILE_SIZE)
                          THEN "init_create" ELSE "done",
                   !.result = IF validate_file_size(total_size, DEFAULT_MAX_FILE_SIZE)
                              THEN "" ELSE "FileSizeExceeded"]]
    /\ D1Unchanged /\ Frozen /\ UNCHANGED r2

\* initialize_upload_create with the failure of the backend call ignored: the
\* handler goes on to store a session without a backend transfer.
initialize_upload_create_lenient(p) ==
    /\ h[p].pc = "init_create"
    /\ \/ /\ CanCreateMultipartUpload
          /\ CreateMultipartUpload
          /\ h' = [h EXCEPT ![p].pc = "init_insert",
                            ![p].calls = @ + 1,
                            ![p].metadata =
                               UploadMetadata("Initiated", h[p].total_size, <<>>,
                                              Len(r2) + 1, now, now)]
       \/ /\ h' = [h EXCEPT ![p].pc = "init_insert",
                            ![p].calls = @ + 1,
                            ![p].metadata =
                               UploadMetadata("Initiated", h[p].total_size, <<>>,
                                              0, now, now)]
          /\ UNCHANGED r2
    /\ D1Unchanged /\ Frozen

\* bucket.create_multipart_upload(r2_key).execute().await
initialize_upload_create(p) ==
    /\ h[p].pc = "init_create"
    /\ \/ /\ CanCreateMultipartUpload
          /\ CreateMultipartUpload
          /\ h' = [h EXCEPT ![p].pc = "init_insert",
                            ![p].calls = @ + 1,
                            ![p].metadata =
                               UploadMetadata("Initiated", h[p].total_size, <<>>,
                                              Len(r2) + 1, now, now)]
       \/ /\ FinishCall(p, "R2Error")
          /\ UNCHANGED r2
    /\ D1Unchanged /\ Frozen

\* initialize_upload_insert aborting the transfer it opened when create_upload
\* fails.
initialize_upload_insert_aborts(p) ==
    /\ h[p].pc = "init_insert"
    /\ \/ /\ create_upload(h[p].upload_id, h[p].metadata)
          /\ Finish(p, "ok")
          /\ UNCHANGED r2
       \/ /\ Finish(p, "DatabaseError")
          /\ r2' = [r2 EXCEPT ![h[p].metadata.r2_upload_id] = "aborted"]
          /\ UNCHANGED uploads
    /\ UNCHANGED upload_chunks /\ Frozen

\* database.create_upload(&metadata).await
initialize_upload_insert(p) ==
    /\ h[p].pc = "init_insert"
    /\ \/ /\ create_upload(h[p].upload_id, h[p].metadata)
          /\ Finish(p, "ok")
       \/ /\ Finish(p, "DatabaseError")
          /\ UNCHANGED uploads
    /\ UNCHANGED <<upload_chunks, r2>> /\ Frozen

\* upload_chunk with the check of the empty body left out.
upload_chunk_any_body(p, id, chunk_index, bytes) ==
    /\ variant = "d1"
    /\ Ready(p)
    /\ h' = [h EXCEPT ![p] =
                [IdleFrame EXCEPT
                   !.op = "chunk", !.upload_id = id,
                   !.chunk_index = chunk_index, !.bytes = bytes,
                   !.pc = IF chunk_index > MAX_CHUNK_INDEX
                          THEN "done" ELSE "chunk_get",
                   !.result = IF chunk_index > MAX_CHUNK_INDEX
                              THEN "InvalidChunkIndex" ELSE ""]]
    /\ D1Unchanged /\ Frozen /\ UNCHANGED r2

\* upload_chunk, up to the await on get_upload: the header and body checks.
upload_chunk(p, id, chunk_index, bytes) ==
    /\ variant = "d1"
    /\ Ready(p)
    /\ h' = [h EXCEPT ![p] =
                [IdleFrame EXCEPT
                   !.op = "chunk", !.upload_id = id,
                   !.chunk_index = chunk_index, !.bytes = bytes,
                   !.pc = IF chunk_index > MAX_CHUNK_INDEX \/ bytes = 0
                          THEN "done" ELSE "chunk_get",
                   !.result = IF chunk_index > MAX_CHUNK_INDEX THEN "InvalidChunkIndex"
                              ELSE IF bytes = 0 THEN "ValidationError" ELSE ""]]
    /\ D1Unchanged /\ Frozen /\ UNCHANGED r2

\* upload_chunk_get with the check of the terminal states left out.
upload_chunk_get_unchecked(p) ==
    /\ h[p].pc = "chunk_get"
    /\ LET metadata == get_upload(h[p].upload_id) IN
       \/ /\ metadata = NoRow
          /\ Finish(p, "UploadNotFound")
       \/ /\ metadata # NoRow
          /\ h' = [h EXCEPT ![p].pc = "chunk_part", ![p].metadata = Used(metadata)]
    /\ D1Unchanged /\ Frozen /\ UNCHANGED r2

\* database.get_upload(&upload_id).await and the status checks.
upload_chunk_get(p) ==
    /\ h[p].pc = "chunk_get"
    /\ LET metadata == get_upload(h[p].upload_id) IN
       \/ /\ metadata = NoRow
          /\ Finish(p, "UploadNotFound")
       \/ /\ metadata.status = "Completed"
          /\ Finish(p, "UploadAlreadyCompleted")
       \/ /\ metadata.status = "Cancelled"
          /\ Finish(p, "UploadCancelled")
       \/ /\ metadata.status \in {"Initiated", "InProgress"}
          /\ h' = [h EXCEPT ![p].pc = "chunk_part", ![p].metadata = Used(metadata)]
    /\ D1Unchanged /\ Frozen /\ UNCHANGED r2

\* The part number with the chunk index used as it is, not moved to 1-based.
part_number_zero_based(chunk_index) == chunk_index % 65536

\* let part_number = chunk_index + 1 (u16).
part_number(chunk_index) == (chunk_index + 1) % 65536

\* upload_chunk_part with the failure of the part upload ignored: the handler
\* goes on to record the chunk without a tag.
upload_chunk_part_lenient(p) ==
    /\ h[p].pc = "chunk_part"
    /\ \/ /\ TransferOpen(h[p].metadata.r2_upload_id)
          /\ h' = [h EXCEPT ![p].pc = "chunk_record", ![p].calls = @ + 1,
                            ![p].etag = Etag(part_number(h[p].chunk_index),
                                             h[p].bytes)]
       \/ h' = [h EXCEPT ![p].pc = "chunk_record", ![p].calls = @ + 1]
    /\ D1Unchanged /\ Frozen /\ UNCHANGED r2

\* multipart.upload_part(part_number, chunk_bytes).await
upload_chunk_part(p) ==
    /\ h[p].pc = "chunk_part"
    /\ \/ /\ TransferOpen(h[p].metadata.r2_upload_id)
          /\ h' = [h EXCEPT ![p].pc = "chunk_record", ![p].calls = @ + 1,
                            ![p].etag = Etag(part_number(h[p].chunk_index),
                                             h[p].bytes)]
       \/ FinishCall(p, "R2Error")
    /\ D1Unchanged /\ Frozen /\ UNCHANGED r2

\* upload_chunk_record going on to the status update without storing the row.
upload_chunk_record_skipped(p) ==
    /\ h[p].pc = "chunk_record"
    /\ \/ Goto(p, "chunk_status")
       \/ Finish(p, "DatabaseError")
    /\ UNCHANGED <<upload_chunks, failed_parts>>
    /\ UNCHANGED <<variant, objects, now, storage, uploads, r2>>

\* database.record_chunk(upload_id, chunk_index, chunk_size, Some(etag)).await
upload_chunk_record(p) ==
    /\ h[p].pc = "chunk_record"
    /\ \/ /\ record_chunk(h[p].upload_id, h[p].chunk_index, h[p].bytes, h[p].etag)
          /\ Goto(p, "chunk_status")
          /\ failed_parts' = [failed_parts EXCEPT ![h[p].upload_id] = <<>>]
       \/ /\ Finish(p, "DatabaseError")
          /\ UNCHANGED <<upload_chunks, failed_parts>>
    /\ UNCHANGED <<variant, objects, now, storage, uploads, r2>>

\* upload_chunk_status with touch_upload in both cases: the status is never
\* advanced.
upload_chunk_status_touch(p) ==
    /\ h[p].pc = "chunk_status"
    /\ \/ /\ touch_upload(h[p].upload_id)
          /\ Finish(p, "ok")
       \/ /\ Finish(p, "DatabaseError")
          /\ UNCHANGED uploads
    /\ UNCHANGED <<upload_chunks, r2>> /\ Frozen

\* update_upload_status(InProgress) when the session was read as Initiated,
\* touch_upload otherwise.
upload_chunk_status(p) ==
    /\ h[p].pc = "chunk_status"
    /\ \/ /\ IF h[p].metadata.status = "Initiated"
             THEN update_upload_status(h[p].upload_id, "InProgress")
             ELSE touch_upload(h[p].upload_id)
          /\ Finish(p, "ok")
       \/ /\ Finish(p, "DatabaseError")
          /\ UNCHANGED uploads
    /\ UNCHANGED <<upload_chunks, r2>> /\ Frozen

\* complete_upload, up to the await on get_upload.
complete_upload(p, id) ==
    /\ variant = "d1"
    /\ Ready(p)
    /\ h' = [h EXCEPT ![p] =
                [IdleFrame EXCEPT !.op = "complete", !.upload_id = id,
                                  !.pc = "complete_get"]]
    /\ D1Unchanged /\ Frozen /\ UNCHANGED r2

\* database.get_upload(&payload.upload_id).await and the status checks.
complete_upload_get(p) ==
    /\ h[p].pc = "complete_get"
    /\ LET metadata == get_upload(h[p].upload_id) IN
       \/ /\ metadata = NoRow
          /\ Finish(p, "UploadNotFound")
       \/ /\ metadata.status = "Completed"
          /\ Finish(p, "UploadAlreadyCompleted")
       \/ /\ metadata.status = "Cancelled"
          /\ Finish(p, "UploadCancelled")
       \/ /\ metadata.status \in {"Initiated", "InProgress"}
          /\ h' = [h EXCEPT ![p].pc = "complete_chunks", ![p].metadata = Used(metadata)]
    /\ D1Unchanged /\ Frozen /\ UNCHANGED r2

\* complete_upload_chunks with the emptiness check left out.
complete_upload_chunks_unchecked(p) ==
    /\ h[p].pc = "complete_chunks"
    /\ LET chunk_records == fetch_chunks(h[p].upload_id) IN
       \/ /\ ~HasAllEtags(chunk_records)
          /\ Finish(p, "ValidationError")
       \/ /\ HasAllEtags(chunk_records)
          /\ h' = [h EXCEPT ![p].pc = "complete_finalize",
                            ![p].parts = collect_part_descriptors(chunk_records)]
    /\ D1Unchanged /\ Frozen /\ UNCHANGED r2

\* complete_upload_chunks with a collect_part_descriptors that passes a record
\* without etag on instead of returning ValidationError.
complete_upload_chunks_tagless(p) ==
    /\ h[p].pc = "complete_chunks"
    /\ LET chunk_records == fetch_chunks(h[p].upload_id) IN
       \/ /\ chunk_records = <<>>
          /\ Finish(p, "ValidationError")
       \/ /\ chunk_records # <<>>
          /\ h' = [h EXCEPT ![p].pc = "complete_finalize",
                            ![p].parts = collect_part_descriptors(chunk_records)]
    /\ D1Unchanged /\ Frozen /\ UNCHANGED r2

\* database.get_upload_chunks(..).await, the emptiness check and
\* build_uploaded_parts.
complete_upload_chunks(p) ==
    /\ h[p].pc = "complete_chunks"
    /\ LET chunk_records == fetch_chunks(h[p].upload_id) IN
       \/ /\ chunk_records = <<>>
          /\ Finish(p, "ValidationError")
       \/ /\ chunk_records # <<>>
          /\ ~HasAllEtags(chunk_records)
          /\ Finish(p, "ValidationError")
       \/ /\ chunk_records # <<>>
          /\ HasAllEtags(chunk_records)
          /\ h' = [h EXCEPT ![p].pc = "complete_finalize",
                            ![p].parts = collect_part_descriptors(chunk_records)]
    /\ D1Unchanged /\ Frozen /\ UNCHANGED r2

\* complete_upload_finalize marking the upload Completed before it looks at
\* the outcome of multipart.complete.
complete_upload_finalize_marks(p) ==
    /\ h[p].pc = "complete_finalize"
    /\ \/ /\ TransferOpen(h[p].metadata.r2_upload_id)
          /\ r2' = [r2 EXCEPT ![h[p].metadata.r2_upload_id] = "completed"]
          /\ h' = [h EXCEPT ![p].pc = "complete_status", ![p].calls = @ + 1]
          /\ UNCHANGED <<failed_parts, uploads>>
       \/ /\ FinishCall(p, "R2Error")
          /\ update_upload_status(h[p].upload_id, "Completed")
          /\ failed_parts' = [failed_parts EXCEPT ![h[p].upload_id] = h[p].parts]
          /\ UNCHANGED r2
    /\ UNCHANGED <<upload_chunks, variant, objects, now, storage>>

\* complete_upload_finalize deleting the record of the last part when
\* multipart.complete fails.
complete_upload_finalize_drops(p) ==
    /\ h[p].pc = "complete_finalize"
    /\ \/ /\ TransferOpen(h[p].metadata.r2_upload_id)
          /\ r2' = [r2 EXCEPT ![h[p].metadata.r2_upload_id] = "completed"]
          /\ h' = [h EXCEPT ![p].pc = "complete_status", ![p].calls = @ + 1]
          /\ UNCHANGED <<failed_parts, upload_chunks>>
       \/ /\ FinishCall(p, "R2Error")
          /\ LET last == h[p].parts[Len(h[p].parts)].part_number - 1
                 kept == {r \in BagToSet(upload_chunks) :
                             ~(r.upload_id = h[p].upload_id /\ r.chunk_index = last)}
             IN upload_chunks' = [r \in kept |-> CopiesIn(r, upload_chunks)]
          /\ failed_parts' = [failed_parts EXCEPT ![h[p].upload_id] = h[p].parts]
          /\ UNCHANGED r2
    /\ UNCHANGED <<uploads, variant, objects, now, storage>>

\* multipart.complete(uploaded_parts).await
complete_upload_finalize(p) ==
    /\ h[p].pc = "complete_finalize"
    /\ \/ /\ TransferOpen(h[p].metadata.r2_upload_id)
          /\ r2' = [r2 EXCEPT ![h[p].metadata.r2_upload_id] = "completed"]
          /\ h' = [h EXCEPT ![p].pc = "complete_status", ![p].calls = @ + 1]
          /\ UNCHANGED failed_parts
       \/ /\ FinishCall(p, "R2Error")
          /\ failed_parts' = [failed_parts EXCEPT ![h[p].upload_id] = h[p].parts]
          /\ UNCHANGED r2
    /\ D1Unchanged /\ UNCHANGED <<variant, objects, now, storage>>

\* database.update_upload_status(upload_id, Completed).await
complete_upload_status(p) ==
    /\ h[p].pc = "complete_status"
    /\ \/ /\ update_upload_status(h[p].upload_id, "Completed")
          /\ Finish(p, "ok")
       \/ /\ Finish(p, "DatabaseError")
          /\ UNCHANGED uploads
    /\ UNCHANGED <<upload_chunks, r2>> /\ Frozen

\* cancel_upload, up to the await on get_upload.
cancel_upload(p, id) ==
    /\ variant = "d1"
    /\ Ready(p)
    /\ h' = [h EXCEPT ![p] =
                [IdleFrame EXCEPT !.op = "cancel", !.upload_id = id,
                                  !.pc = "cancel_get"]]
    /\ D1Unchanged /\ Frozen /\ UNCHANGED r2

\* cancel_upload_get with the check of the Completed status left out.
cancel_upload_get_unchecked(p) ==
    /\ h[p].pc = "cancel_get"
    /\ LET metadata == get_upload(h[p].upload_id) IN
       \/ /\ metadata = NoRow
          /\ Finish(p, "UploadNotFound")
       \/ /\ metadata.status = "Cancelled"
          /\ Finish(p, "UploadCancelled")
       \/ /\ metadata.status \in {"Initiated", "InProgress", "Completed"}
          /\ h' = [h EXCEPT ![p].pc = "cancel_abort", ![p].metadata = Used(metadata)]
    /\ D1Unchanged /\ Frozen /\ UNCHANGED r2

\* database.get_upload(&payload.upload_id).await and the status checks.
cancel_upload_get(p) ==
    /\ h[p].pc = "cancel_get"
    /\ LET metadata == get_upload(h[p].upload_id) IN
       \/ /\ metadata = NoRow
          /\ Finish(p, "UploadNotFound")
       \/ /\ metadata.status = "Completed"
          /\ Finish(p, "UploadAlreadyCompleted")
       \/ /\ metadata.status = "Cancelled"
          /\ Finish(p, "UploadCancelled")
       \/ /\ metadata.status \in {"Initiated", "InProgress"}
          /\ h' = [h EXCEPT ![p].pc = "cancel_abort", ![p].metadata = Used(metadata)]
    /\ D1Unchanged /\ Frozen /\ UNCHANGED r2

\* multipart.abort().await
cancel_upload_abort(p) ==
    /\ h[p].pc = "cancel_abort"
    /\ \/ /\ TransferOpen(h[p].metadata.r2_upload_id)
          /\ r2' = [r2 EXCEPT ![h[p].metadata.r2_upload_id] = "aborted"]
          /\ h' = [h EXCEPT ![p].pc = "cancel_status", ![p].calls = @ + 1]
       \/ /\ FinishCall(p, "R2Error")
          /\ UNCHANGED r2
    /\ D1Unchanged /\ Frozen

\* database.update_upload_status(upload_id, Cancelled).await
cancel_upload_status(p) ==
    /\ h[p].pc = "cancel_status"
    /\ \/ /\ update_upload_status(h[p].upload_id, "Cancelled")
          /\ Finish(p, "ok")
       \/ /\ Finish(p, "DatabaseError")
          /\ UNCHANGED uploads
    /\ UNCHANGED <<upload_chunks, r2>> /\ Frozen

\* get_upload_status, up to the await on get_upload.
get_upload_status(p, id) ==
    /\ variant = "d1"
    /\ Ready(p)
    /\ h' = [h EXCEPT ![p] =
                [IdleFrame EXCEPT !.op = "status", !.upload_id = id,
                                  !.pc = "status_get"]]
    /\ D1Unchanged /\ Frozen /\ UNCHANGED r2

\* get_upload_status_get that stamps the session as touched when it reads it.
get_upload_status_get_touch(p) ==
    /\ h[p].pc = "status_get"
    /\ LET metadata == get_upload(h[p].upload_id) IN
       \/ /\ metadata = NoRow
          /\ Finish(p, "UploadNotFound")
          /\ UNCHANGED uploads
       \/ /\ metadata # NoRow
          /\ FinishWith(p, "ok", metadata)
          /\ touch_upload(h[p].upload_id)
    /\ UNCHANGED <<upload_chunks, r2>> /\ Frozen

\* database.get_upload(upload_id).await and the response body.
get_upload_status_get(p) ==
    /\ h[p].pc = "status_get"
    /\ LET metadata == get_upload(h[p].upload_id) IN
       \/ /\ metadata = NoRow
          /\ Finish(p, "UploadNotFound")
       \/ /\ metadata # NoRow
          /\ FinishWith(p, "ok", metadata)
    /\ D1Unchanged /\ Frozen /\ UNCHANGED r2

(***************************************************************************)
(* The Durable Object tracker                                              *)
(* (src/src/durable_objects/upload_tracker.rs).  A handler's result is the *)
(* HTTP status and message of its Response, or "Err" for a worker::Error.  *)
(***************************************************************************)
D1Frozen == UNCHANGED <<variant, objects, now, uploads, upload_chunks, failed_parts>>

\* The `parts` arrays a caller may send to handle_complete.
ClientParts ==
    {<<>>,
     <<PartDescriptor(1, Etag(1, 1))>>,
     <<PartDescriptor(2, Etag(2, 1)), PartDescriptor(1, Etag(1, 1))>>,
     <<PartDescriptor(0, Etag(1, 1))>>,
     <<PartDescriptor(1, NoEtag)>>}

\* self.state.storage().put(&upload_id, &metadata)
storage_put(upload_id, metadata) ==
    storage' = [storage EXCEPT ![upload_id] = metadata]

\* handle_initiate, up to the await on storage.put.
handle_initiate(p, id, total_size) ==
    /\ variant = "tracker"
    /\ Ready(p)
    /\ FreshId(id)
    /\ h' = [h EXCEPT ![p] =
                IF validate_file_size(total_size, DEFAULT_MAX_FILE_SIZE)
                THEN [IdleFrame EXCEPT
                        !.op = "init", !.upload_id = id, !.total_size = total_size,
                        !.pc = "t_init_put",
                        !.metadata = UploadMetadata("Initiated", total_size, <<>>,
                                                    0, now, now)]
                ELSE [IdleFrame EXCEPT
                        !.op = "init", !.upload_id = id, !.total_size = total_size,
                        !.pc = "done", !.result = "413 File size exceeded"]]
    /\ UNCHANGED <<storage, r2>> /\ D1Frozen

\* self.state.storage().put(&upload_id, &metadata).await
handle_initiate_put(p) ==
    /\ h[p].pc = "t_init_put"
    /\ \/ /\ storage_put(h[p].upload_id, h[p].metadata)
          /\ Finish(p, "200 Multipart upload initiated")
       \/ /\ Finish(p, "Err")
          /\ UNCHANGED storage
    /\ UNCHANGED r2 /\ D1Frozen

\* handle_upload_chunk, up to the await on storage.get: the index check.
handle_upload_chunk(p, id, chunk_index, bytes) ==
    /\ variant = "tracker"
    /\ Ready(p)
    /\ h' = [h EXCEPT ![p] =
                [IdleFrame EXCEPT
                   !.op = "chunk", !.upload_id = id,
                   !.chunk_index = chunk_index, !.bytes = bytes,
                   !.pc = IF chunk_index = 0 \/ chunk_index > MAX_CHUNK_INDEX
                          THEN "done" ELSE "t_chunk_get",
                   !.result = IF chunk_index = 0 \/ chunk_index > MAX_CHUNK_INDEX
                              THEN "400 Invalid chunk index" ELSE ""]]
    /\ UNCHANGED <<storage, r2>> /\ D1Frozen

\* handle_upload_chunk_get creating the R2 transfer for whichever chunk
\* arrives while r2_upload_id is empty, not only for chunk 1.
handle_upload_chunk_get_opens_any(p) ==
    /\ h[p].pc = "t_chunk_get"
    /\ LET metadata == storage[h[p].upload_id]
           Reject(res) == Finish(p, res)
       IN
       \/ /\ metadata = NoRow
          /\ Finish(p, "404 Upload not found")
       \/ /\ metadata.status = "Completed"
          /\ Reject("409 Upload already completed")
       \/ /\ metadata.status = "Cancelled"
          /\ Reject("409 Upload was cancelled")
       \/ /\ metadata.status \in {"Initiated", "InProgress"}
          /\ contains(metadata.chunks, h[p].chunk_index)
          /\ Reject("409 Chunk already uploaded")
       \/ /\ metadata.status \in {"Initiated", "InProgress"}
          /\ ~contains(metadata.chunks, h[p].chunk_index)
          /\ h[p].bytes = 0
          /\ Reject("400 Empty chunk data")
       \/ /\ metadata.status \in {"Initiated", "InProgress"}
          /\ ~contains(metadata.chunks, h[p].chunk_index)
          /\ h[p].bytes # 0
          /\ h' = [h EXCEPT ![p].pc = IF metadata.r2_upload_id = 0
                                      THEN "t_chunk_create" ELSE "t_chunk_part",
                            ![p].metadata = metadata]
    /\ UNCHANGED <<storage, r2>> /\ D1Frozen

\* storage.get(&upload_id).await, the status and duplicate checks, the body
\* check, and the choice between creating and resuming the R2 transfer.
handle_upload_chunk_get(p) ==
    /\ h[p].pc = "t_chunk_get"
    /\ LET metadata == storage[h[p].upload_id]
           Reject(res) == Finish(p, res)
       IN
       \/ /\ metadata = NoRow
          /\ Finish(p, "404 Upload not found")
       \/ /\ metadata.status = "Completed"
          /\ Reject("409 Upload already completed")
       \/ /\ metadata.status = "Cancelled"
          /\ Reject("409 Upload was cancelled")
       \/ /\ metadata.status \in {"Initiated", "InProgress"}
          /\ contains(metadata.chunks, h[p].chunk_index)
          /\ Reject("409 Chunk already uploaded")
       \/ /\ metadata.status \in {"Initiated", "InProgress"}
          /\ ~contains(metadata.chunks, h[p].chunk_index)
          /\ h[p].bytes = 0
          /\ Reject("400 Empty chunk data")
       \/ /\ metadata.status \in {"Initiated", "InProgress"}
          /\ ~contains(metadata.chunks, h[p].chunk_index)
          /\ h[p].bytes # 0
          /\ h[p].chunk_index = 1
          /\ h' = [h EXCEPT ![p].pc = "t_chunk_create", ![p].metadata = metadata]
       \/ /\ metadata.status \in {"Initiated", "InProgress"}
          /\ ~contains(metadata.chunks, h[p].chunk_index)
          /\ h[p].bytes # 0
          /\ h[p].chunk_index # 1
          /\ metadata.r2_upload_id = 0
          /\ Reject("500 Invalid upload state: missing R2 upload ID")
       \/ /\ metadata.status \in {"Initiated", "InProgress"}
          /\ ~contains(metadata.chunks, h[p].chunk_index)
          /\ h[p].bytes # 0
          /\ h[p].chunk_index # 1
          /\ metadata.r2_upload_id # 0
          /\ h' = [h EXCEPT ![p].pc = "t_chunk_part", ![p].metadata = metadata]
    /\ UNCHANGED <<storage, r2>> /\ D1Frozen

\* r2.create_multipart_upload(&metadata.r2_key).execute().await
handle_upload_chunk_create(p) ==
    /\ h[p].pc = "t_chunk_create"
    /\ \/ /\ CanCreateMultipartUpload
          /\ CreateMultipartUpload
          /\ h' = [h EXCEPT ![p].pc = "t_chunk_part", ![p].calls = @ + 1,
                            ![p].metadata.r2_upload_id = Len(r2) + 1]
       \/ /\ FinishCall(p, "Err")
          /\ UNCHANGED r2
    /\ UNCHANGED storage /\ D1Frozen

\* multipart_upload.upload_part(chunk_index, chunk_data).await
handle_upload_chunk_part(p) ==
    /\ h[p].pc = "t_chunk_part"
    /\ \/ /\ TransferOpen(h[p].metadata.r2_upload_id)
          /\ h' = [h EXCEPT ![p].pc = "t_chunk_put", ![p].calls = @ + 1,
                            ![p].etag = Etag(h[p].chunk_index, h[p].bytes)]
       \/ FinishCall(p, "Err")
    /\ UNCHANGED <<storage, r2>> /\ D1Frozen

\* The metadata update and storage.put(&upload_id, &metadata).await
handle_upload_chunk_put(p) ==
    /\ h[p].pc = "t_chunk_put"
    /\ LET metadata ==
             [h[p].metadata EXCEPT
                !.chunks = sort_unstable(Append(@, h[p].chunk_index)),
                !.status = "InProgress",
                !.updated_at = now]
       IN
       \/ /\ storage_put(h[p].upload_id, metadata)
          /\ Finish(p, "200 Chunk uploaded successfully")
       \/ /\ Finish(p, "Err")
          /\ UNCHANGED storage
    /\ UNCHANGED r2 /\ D1Frozen

\* handle_complete, up to the await on storage.get.
handle_complete(p, id, parts) ==
    /\ variant = "tracker"
    /\ Ready(p)
    /\ h' = [h EXCEPT ![p] =
                [IdleFrame EXCEPT !.op = "complete", !.upload_id = id,
                                  !.parts = parts, !.pc = "t_complete_get"]]
    /\ UNCHANGED <<storage, r2>> /\ D1Frozen

\* Every part of the request carries an etag and a non-zero part number.
PartsValid(parts) ==
    \A k \in 1..Len(parts) : parts[k].etag # NoEtag /\ parts[k].part_number # 0

\* storage.get(upload_id).await, the status checks and the checks of the
\* request's parts and of r2_upload_id.
handle_complete_get(p) ==
    /\ h[p].pc = "t_complete_get"
    /\ LET metadata == storage[h[p].upload_id]
           Reject(res) == Finish(p, res)
       IN
       \/ /\ metadata = NoRow
          /\ Finish(p, "404 Upload not found")
       \/ /\ metadata.status = "Completed"
          /\ Reject("409 Upload already completed")
       \/ /\ metadata.status = "Cancelled"
          /\ Reject("409 Upload was cancelled")
       \/ /\ metadata.status = "Initiated"
          /\ Reject("400 Upload has no chunks uploaded yet")
       \/ /\ metadata.status = "InProgress"
          /\ h[p].parts = <<>>
          /\ Reject("400 No parts provided for completion")
       \/ /\ metadata.status = "InProgress"
          /\ h[p].parts # <<>>
          /\ ~PartsValid(h[p].parts)
          /\ Reject("400 Invalid part")
       \/ /\ metadata.status = "InProgress"
          /\ h[p].parts # <<>>
          /\ PartsValid(h[p].parts)
          /\ IF metadata.r2_upload_id = 0
             THEN Reject("500 Invalid upload state: missing R2 upload ID")
             ELSE h' = [h EXCEPT ![p].pc = "t_complete_finalize",
                                 ![p].metadata = metadata]
    /\ UNCHANGED <<storage, r2>> /\ D1Frozen

\* handle_complete_finalize going on to store Completed whether
\* multipart_upload.complete returned Ok or Err.
handle_complete_finalize_regardless(p) ==
    /\ h[p].pc = "t_complete_finalize"
    /\ \/ /\ TransferOpen(h[p].metadata.r2_upload_id)
          /\ r2' = [r2 EXCEPT ![h[p].metadata.r2_upload_id] = "completed"]
       \/ UNCHANGED r2
    /\ h' = [h EXCEPT ![p].pc = "t_complete_put", ![p].calls = @ + 1,
                      ![p].metadata.status = "Completed",
                      ![p].metadata.updated_at = now]
    /\ UNCHANGED storage /\ D1Frozen

\* multipart_upload.complete(complete_parts).await
handle_complete_finalize(p) ==
    /\ h[p].pc = "t_complete_finalize"
    /\ \/ /\ TransferOpen(h[p].metadata.r2_upload_id)
          /\ r2' = [r2 EXCEPT ![h[p].metadata.r2_upload_id] = "completed"]
          /\ h' = [h EXCEPT ![p].pc = "t_complete_put", ![p].calls = @ + 1,
                            ![p].metadata.status = "Completed",
                            ![p].metadata.updated_at = now]
       \/ /\ FinishCall(p, "500 Failed to complete multipart upload in R2")
          /\ UNCHANGED r2
    /\ UNCHANGED storage /\ D1Frozen

\* storage.put(upload_id, &metadata).await
handle_complete_put(p) ==
    /\ h[p].pc = "t_complete_put"
    /\ \/ /\ storage_put(h[p].upload_id, h[p].metadata)
          /\ Finish(p, "200 Multipart upload completed successfully")
       \/ /\ Finish(p, "Err")
          /\ UNCHANGED storage
    /\ UNCHANGED r2 /\ D1Frozen

\* handle_cancel, up to the await on storage.get.
handle_cancel(p, id) ==
    /\ variant = "tracker"
    /\ Ready(p)
    /\ h' = [h EXCEPT ![p] =
                [IdleFrame EXCEPT !.op = "cancel", !.upload_id = id,
                                  !.pc = "t_cancel_get"]]
    /\ UNCHANGED <<storage, r2>> /\ D1Frozen

\* handle_cancel_get with the checks of the final states left out.
handle_cancel_get_any(p) ==
    /\ h[p].pc = "t_cancel_get"
    /\ LET metadata == storage[h[p].upload_id] IN
       \/ /\ metadata = NoRow
          /\ Finish(p, "404 Upload not found")
       \/ /\ metadata # NoRow
          /\ h' = [h EXCEPT ![p].metadata = metadata,
                            ![p].pc = IF metadata.r2_upload_id # 0
                                      THEN "t_cancel_abort" ELSE "t_cancel_put"]
    /\ UNCHANGED <<storage, r2>> /\ D1Frozen

\* storage.get(&upload_id).await and the final-state checks.
handle_cancel_get(p) ==
    /\ h[p].pc = "t_cancel_get"
    /\ LET metadata == storage[h[p].upload_id]
           Reject(res) == Finish(p, res)
       IN
       \/ /\ metadata = NoRow
          /\ Finish(p, "404 Upload not found")
       \/ /\ metadata.status = "Completed"
          /\ Reject("409 Cannot cancel completed upload")
       \/ /\ metadata.status = "Cancelled"
          /\ Reject("200 Upload already cancelled")
       \/ /\ metadata.status \in {"Initiated", "InProgress"}
          /\ h' = [h EXCEPT ![p].metadata = metadata,
                            ![p].pc = IF metadata.r2_upload_id # 0
                                      THEN "t_cancel_abort" ELSE "t_cancel_put"]
    /\ UNCHANGED <<storage, r2>> /\ D1Frozen

\* upload.abort().await: a failure is logged and the cancellation goes on.
handle_cancel_abort(p) ==
    /\ h[p].pc = "t_cancel_abort"
    /\ \/ /\ TransferOpen(h[p].metadata.r2_upload_id)
          /\ r2' = [r2 EXCEPT ![h[p].metadata.r2_upload_id] = "aborted"]
       \/ UNCHANGED r2
    /\ h' = [h EXCEPT ![p].pc = "t_cancel_put", ![p].calls = @ + 1]
    /\ UNCHANGED storage /\ D1Frozen

\* The status update and storage.put(&upload_id, &metadata).await
handle_cancel_put(p) ==
    /\ h[p].pc = "t_cancel_put"
    /\ LET metadata == [h[p].metadata EXCEPT !.status = "Cancelled",
                                             !.updated_at = now]
       IN
       \/ /\ storage_put(h[p].upload_id, metadata)
          /\ Finish(p, "200 Upload cancelled successfully")
       \/ /\ Finish(p, "Err")
          /\ UNCHANGED storage
    /\ UNCHANGED r2 /\ D1Frozen

(***************************************************************************)
(* The f64 arithmetic of handle_status' progress estimate (IEEE 754         *)
(* binary64, round to nearest, ties to even).  A positive value is          *)
(* [m |-> limbs, q |-> exponent]: the digits in base LimbBase, the most     *)
(* significant first, of a number M, of value M * 2^q.  A quotient has      *)
(* QuotientLimbs limbs, 54 bits, of which the last is 0 and the first is 1: *)
(* the 53 bits of the significand.  F64Zero is 0.0.  The operands are       *)
(* integers that f64 holds exactly.                                         *)
(***************************************************************************)
LimbBase == 512
LimbBits == 9
QuotientLimbs == 6
F64Zero == [m |-> <<>>, q |-> 0]

RECURSIVE Pow2(_)
Pow2(n) == IF n = 0 THEN 1 ELSE 2 * Pow2(n - 1)

\* The number that the first k limbs of m write.
RECURSIVE LimbsToInt(_, _)
LimbsToInt(m, k) ==
    IF k = 0 THEN 0 ELSE LimbBase * LimbsToInt(m, k - 1) + m[k]

\* m with c added to its limb i, the carries taken to the limbs before it
\* (a carry out of the first limb is dropped).
RECURSIVE AddAt(_, _, _)
AddAt(m, i, c) ==
    IF c = 0 \/ i = 0 THEN m
    ELSE AddAt([m EXCEPT ![i] = (m[i] + c) % LimbBase], i - 1,
               (m[i] + c) \div LimbBase)

\* The limbs `acc` followed by the first n limbs of the expansion of r / d
\* (r < d) in base LimbBase, and what is left of the division.
RECURSIVE QuotientDigits(_, _, _, _)
QuotientDigits(r, d, n, acc) ==
    IF n = 0 THEN [m |-> acc, rem |-> r]
    ELSE QuotientDigits((r * LimbBase) % d, d, n - 1,
                        Append(acc, (r * LimbBase) \div d))

\* a / d * 2^e written with a / d in [1/2, 1).
RECURSIVE Normalize(_, _, _)
Normalize(a, d, e) ==
    IF a >= d THEN Normalize(a, 2 * d, e + 1)
    ELSE IF 2 * a < d THEN Normalize(2 * a, d, e - 1)
    ELSE [a |-> a, d |-> d, e |-> e]

\* m rounded to a multiple of 2^drop (drop <= LimbBits, so the bits dropped
\* are the low bits of the last limb; sticky: something non-zero lies beyond
\* m): to the nearest one, a tie to the one whose next bit is 0.
round_to_nearest_even(m, drop, sticky) ==
    LET n == Len(m)
        low == m[n] % Pow2(drop)
        guard == low \div Pow2(drop - 1)
        rest == sticky \/ low % Pow2(drop - 1) # 0
        odd == drop < LimbBits /\ (m[n] \div Pow2(drop)) % 2 = 1
        up == guard = 1 /\ (rest \/ odd)
        down == [m EXCEPT ![n] = m[n] - low]
    IN IF up THEN AddAt(down, n, Pow2(drop)) ELSE down

\* a as f64 / b as f64, for integers a >= 0 and b > 0.
f64_div(a, b) ==
    IF a = 0 THEN F64Zero
    ELSE LET n == Normalize(a, b, 0)
             d == QuotientDigits(n.a, n.d, QuotientLimbs, <<>>)
             r == round_to_nearest_even(d.m, 1, d.rem # 0)
         IN \* all limbs 0: the significand was all ones and is now 2^54
            IF r[1] = 0
            THEN [m |-> [r EXCEPT ![1] = LimbBase \div 2],
                  q |-> n.e + 1 - QuotientLimbs * LimbBits]
            ELSE [m |-> r, q |-> n.e - QuotientLimbs * LimbBits]

\* x * 100.0: 100 M in one limb more, rounded to 53 bits.
f64_mul_100(x) ==
    IF x = F64Zero THEN F64Zero
    ELSE LET n == Len(x.m)
             carry[i \in 1..(n + 1)] ==
                 IF i = n + 1 THEN 0
                 ELSE (x.m[i] * 100 + carry[i + 1]) \div LimbBase
             p == <<carry[1]>> \o
                  [i \in 1..n |-> (x.m[i] * 100 + carry[i + 1]) % LimbBase]
             \* 100 M has 60 bits, or 61: 7 bits, or 8, are dropped
             drop == IF p[1] >= 64 THEN 8 ELSE 7
         IN [m |-> round_to_nearest_even(p, drop, FALSE), q |-> x.q]

\* The number above the five low limbs of x.m, which weigh less than 2^45.
Top(x) == LimbsToInt(x.m, Len(x.m) - 5)

\* x.ceil(), as an integer, for 0 <= x < 512.
f64_ceil(x) ==
    IF x = F64Zero THEN 0
    ELSE LET t == 0 - x.q - 45
             frac == \/ t > 30
                     \/ Top(x) % Pow2(t) # 0
                     \/ \E k \in (Len(x.m) - 4)..Len(x.m) : x.m[k] # 0
         IN (IF t > 30 THEN 0 ELSE Top(x) \div Pow2(t))
               + (IF frac THEN 1 ELSE 0)

\* x.min(100.0) as u8: the integer part of the smaller of x and 100.
f64_min_100_as_u8(x) ==
    IF x = F64Zero THEN 0
    ELSE LET t == 0 - x.q - 45
         IN IF t < 0 THEN 100
            ELSE IF t > 30 THEN 0
            ELSE IF Top(x) \div Pow2(t) >= 100 THEN 100
            ELSE Top(x) \div Pow2(t)

\* The progressPercentage of handle_status: chunks.len() over the number of
\* chunks the declared size takes, in percent.
progress_percentage(chunks_len, total_size) ==
    IF total_size > 0
    THEN f64_min_100_as_u8(
            f64_mul_100(
               f64_div(chunks_len,
                       f64_ceil(f64_div(total_size, DEFAULT_CHUNK_SIZE)))))
    ELSE 0

\* handle_status, up to the await on storage.get.
handle_status(p, id) ==
    /\ variant = "tracker"
    /\ Ready(p)
    /\ h' = [h EXCEPT ![p] =
                [IdleFrame EXCEPT !.op = "status", !.upload_id = id,
                                  !.pc = "t_status_get"]]
    /\ UNCHANGED <<storage, r2>> /\ D1Frozen

\* storage.get(&upload_id).await and the response body.
handle_status_get(p) ==
    /\ h[p].pc = "t_status_get"
    /\ LET metadata == storage[h[p].upload_id] IN
       \/ /\ metadata = NoRow
          /\ Finish(p, "404 Upload not found")
       \/ /\ metadata # NoRow
          /\ h' = [h EXCEPT ![p].pc = "done", ![p].result = "200",
                            ![p].metadata = metadata,
                            ![p].progress =
                               progress_percentage(Len(metadata.chunks),
                                                   metadata.total_size)]
    /\ UNCHANGED <<storage, r2>> /\ D1Frozen

(***************************************************************************)
(* The first UploadTracker Durable Object (src/src/durable_object.rs): one *)
(* object per upload id, its metadata under the storage key "metadata",    *)
(* the chunks as R2 objects of their own.                                  *)
(***************************************************************************)
\* The userRole strings a caller sends; "guest" names no UserRole.
UserRoleInputs == {"creator", "member", "subscriber", "guest"}

\* UserRole::from_str succeeds.
UserRole_from_str(s) == s \in {"creator", "member", "subscriber"}

\* Config::is_role_allowed and Config::has_permission: the role table of the
\* configuration.  Here one role may upload, one is allowed but may not
\* upload, and one is not allowed at all.
is_role_allowed(user_role) == user_role \in {"creator", "member"}

has_permission(user_role, action) == user_role = "creator" /\ action = "upload"

\* UploadMetadata::new as initiate_multipart_upload calls it;
\* MultipartUploadState::InProgress carries the R2 upload id.
TrackerMetadata(multipart_upload_state, total_size, chunks, r2_upload_id, user_role) ==
    [multipart_upload_state |-> multipart_upload_state,
     total_size |-> total_size, chunks |-> chunks,
     r2_upload_id |-> r2_upload_id, user_role |-> user_role]

\* The R2 objects of a session: format!("{}_chunk_{}", key, chunk_index) for
\* a chunk, and the key itself for the assembled file.
ChunkObject(upload_id, chunk_index) ==
    [upload_id |-> upload_id, kind |-> "chunk", chunk_index |-> chunk_index]

FileObject(upload_id) ==
    [upload_id |-> upload_id, kind |-> "file", chunk_index |-> 0]

\* The ETag R2 gives an object: it depends on the bytes put.
ObjectEtag(bytes) == <<"etag", 0, bytes>>

TrackerFrozen ==
    UNCHANGED <<variant, now, uploads, upload_chunks, failed_parts>>

\* initiate_multipart_upload without the two role checks.
initiate_multipart_upload_unchecked(p, id, total_size, user_role) ==
    /\ variant = "durable_object"
    /\ Ready(p)
    /\ FreshId(id)
    /\ LET frame == [IdleFrame EXCEPT !.op = "init", !.upload_id = id,
                                      !.total_size = total_size,
                                      !.user_role = user_role]
       IN h' = [h EXCEPT ![p] =
                  IF ~UserRole_from_str(user_role)
                  THEN [frame EXCEPT !.pc = "done", !.result = "BadRequest"]
                  ELSE IF total_size > DEFAULT_MAX_FILE_SIZE
                  THEN [frame EXCEPT !.pc = "done", !.result = "FileTooLarge"]
                  ELSE [frame EXCEPT !.pc = "o_init_create"]]
    /\ UNCHANGED <<storage, r2, objects>> /\ TrackerFrozen

\* initiate_multipart_upload, up to the await on create_multipart_upload:
\* the role is parsed and checked, then the size.
initiate_multipart_upload(p, id, total_size, user_role) ==
    /\ variant = "durable_object"
    /\ Ready(p)
    /\ FreshId(id)
    /\ LET frame == [IdleFrame EXCEPT !.op = "init", !.upload_id = id,
                                      !.total_size = total_size,
                                      !.user_role = user_role]
       IN h' = [h EXCEPT ![p] =
                  IF ~UserRole_from_str(user_role)
                  THEN [frame EXCEPT !.pc = "done", !.result = "BadRequest"]
                  ELSE IF ~is_role_allowed(user_role)
                  THEN [frame EXCEPT !.pc = "done", !.result = "Unauthorized"]
                  ELSE IF ~has_permission(user_role, "upload")
                  THEN [frame EXCEPT !.pc = "done", !.result = "Unauthorized"]
                  ELSE IF total_size > DEFAULT_MAX_FILE_SIZE
                  THEN [frame EXCEPT !.pc = "done", !.result = "FileTooLarge"]
                  ELSE [frame EXCEPT !.pc = "o_init_create"]]
    /\ UNCHANGED <<storage, r2, objects>> /\ TrackerFrozen

\* r2.create_multipart_upload(&key).execute().await and the metadata.
initiate_multipart_upload_create(p) ==
    /\ h[p].pc = "o_init_create"
    /\ \/ /\ CanCreateMultipartUpload
          /\ CreateMultipartUpload
          /\ h' = [h EXCEPT ![p].pc = "o_init_put", ![p].calls = @ + 1,
                            ![p].metadata =
                               TrackerMetadata("InProgress", h[p].total_size,
                                               <<>>, Len(r2) + 1,
                                               h[p].user_role)]
       \/ /\ FinishCall(p, "Err")
          /\ UNCHANGED r2
    /\ UNCHANGED <<storage, objects>> /\ TrackerFrozen

\* self.state.storage().put("metadata", &metadata).await
initiate_multipart_upload_put(p) ==
    /\ h[p].pc = "o_init_put"
    /\ \/ /\ storage_put(h[p].upload_id, h[p].metadata)
          /\ Finish(p, "200 Multipart upload initiated")
       \/ /\ Finish(p, "Err")
          /\ UNCHANGED storage
    /\ UNCHANGED <<r2, objects>> /\ TrackerFrozen

\* handle_chunk_upload, up to the await on storage.get; chunkIndex is cast
\* to u16.
handle_chunk_upload(p, id, chunk_index, bytes, etag) ==
    /\ variant = "durable_object"
    /\ Ready(p)
    /\ h' = [h EXCEPT ![p] =
                [IdleFrame EXCEPT !.op = "chunk", !.upload_id = id,
                                  !.chunk_index = chunk_index % 65536,
                                  !.bytes = bytes, !.etag = etag,
                                  !.pc = "o_chunk_get"]]
    /\ UNCHANGED <<storage, r2, objects>> /\ TrackerFrozen

\* storage.get("metadata").await and the state check.
handle_chunk_upload_get(p) ==
    /\ h[p].pc = "o_chunk_get"
    /\ LET metadata == storage[h[p].upload_id] IN
       \/ /\ metadata = NoRow
          /\ Finish(p, "NotFound")
       \/ /\ metadata # NoRow
          /\ metadata.multipart_upload_state # "InProgress"
          /\ Finish(p, "BadRequest")
       \/ /\ metadata # NoRow
          /\ metadata.multipart_upload_state = "InProgress"
          /\ h' = [h EXCEPT ![p].pc = "o_chunk_object", ![p].metadata = metadata]
    /\ UNCHANGED <<storage, r2, objects>> /\ TrackerFrozen

\* r2.put(chunk key, chunk_data).execute().await, the ETag comparison and
\* metadata.chunks.push(chunk_index).
handle_chunk_upload_object(p) ==
    /\ h[p].pc = "o_chunk_object"
    /\ \/ /\ objects' = objects \cup {ChunkObject(h[p].upload_id, h[p].chunk_index)}
          /\ IF ObjectEtag(h[p].bytes) # h[p].etag
             THEN FinishCall(p, "BadRequest")
             ELSE h' = [h EXCEPT ![p].pc = "o_chunk_put", ![p].calls = @ + 1,
                                 ![p].metadata.chunks =
                                    Append(@, h[p].chunk_index)]
       \/ /\ FinishCall(p, "Err")
          /\ UNCHANGED objects
    /\ UNCHANGED <<storage, r2>> /\ TrackerFrozen

\* self.state.storage().put("metadata", &metadata).await
handle_chunk_upload_put(p) ==
    /\ h[p].pc = "o_chunk_put"
    /\ \/ /\ storage_put(h[p].upload_id, h[p].metadata)
          /\ Finish(p, "200 Chunk uploaded successfully")
       \/ /\ Finish(p, "Err")
          /\ UNCHANGED storage
    /\ UNCHANGED <<r2, objects>> /\ TrackerFrozen

\* complete_multipart_upload, up to the await on storage.get.
complete_multipart_upload(p, id) ==
    /\ variant = "durable_object"
    /\ Ready(p)
    /\ h' = [h EXCEPT ![p] =
                [IdleFrame EXCEPT !.op = "complete", !.upload_id = id,
                                  !.pc = "o_complete_get"]]
    /\ UNCHANGED <<storage, r2, objects>> /\ TrackerFrozen

\* storage.get("metadata").await and the state check; `parts` holds the
\* chunks the loop has still to read.
complete_multipart_upload_get(p) ==
    /\ h[p].pc = "o_complete_get"
    /\ LET metadata == storage[h[p].upload_id] IN
       \/ /\ metadata = NoRow
          /\ Finish(p, "NotFound")
       \/ /\ metadata # NoRow
          /\ metadata.multipart_upload_state # "InProgress"
          /\ Finish(p, "BadRequest")
       \/ /\ metadata # NoRow
          /\ metadata.multipart_upload_state = "InProgress"
          /\ h' = [h EXCEPT ![p].pc = "o_complete_chunks",
                            ![p].metadata = metadata,
                            ![p].parts = metadata.chunks]
    /\ UNCHANGED <<storage, r2, objects>> /\ TrackerFrozen

\* One turn of the loop over metadata.chunks: r2.get(&chunk_key), the body,
\* r2.delete(&chunk_key); after the last one, r2.put(&key, combined_data).
complete_multipart_upload_chunks(p) ==
    /\ h[p].pc = "o_complete_chunks"
    /\ \/ /\ h[p].parts # <<>>
          /\ ChunkObject(h[p].upload_id, Head(h[p].parts)) \notin objects
          /\ FinishCall(p, "NotFound")
          /\ UNCHANGED objects
       \/ /\ h[p].parts # <<>>
          /\ ChunkObject(h[p].upload_id, Head(h[p].parts)) \in objects
          /\ objects' = objects \ {ChunkObject(h[p].upload_id, Head(h[p].parts))}
          /\ h' = [h EXCEPT ![p].parts = Tail(@), ![p].calls = @ + 1]
       \/ /\ h[p].parts = <<>>
          /\ objects' = objects \cup {FileObject(h[p].upload_id)}
          /\ h' = [h EXCEPT ![p].pc = "o_complete_put", ![p].calls = @ + 1,
                            ![p].metadata.multipart_upload_state = "Completed"]
       \/ /\ FinishCall(p, "Err")
          /\ UNCHANGED objects
    /\ UNCHANGED <<storage, r2>> /\ TrackerFrozen

\* self.state.storage().put("metadata", &metadata).await
complete_multipart_upload_put(p) ==
    /\ h[p].pc = "o_complete_put"
    /\ \/ /\ storage_put(h[p].upload_id, h[p].metadata)
          /\ Finish(p, "200 Multipart upload completed successfully")
       \/ /\ Finish(p, "Err")
          /\ UNCHANGED storage
    /\ UNCHANGED <<r2, objects>> /\ TrackerFrozen

\* UploadTracker::get_upload_status, up to the await on storage.get.
UploadTracker_get_upload_status(p, id) ==
    /\ variant = "durable_object"
    /\ Ready(p)
    /\ h' = [h EXCEPT ![p] =
                [IdleFrame EXCEPT !.op = "status", !.upload_id = id,
                                  !.pc = "o_status_get"]]
    /\ UNCHANGED <<storage, r2, objects>> /\ TrackerFrozen

\* storage.get("metadata").await and the response body.
UploadTracker_get_upload_status_get(p) ==
    /\ h[p].pc = "o_status_get"
    /\ LET metadata == storage[h[p].upload_id] IN
       IF metadata = NoRow THEN Finish(p, "NotFound")
       ELSE FinishWith(p, "200", metadata)
    /\ UNCHANGED <<storage, r2, objects>> /\ TrackerFrozen

\* UploadTracker::cancel_upload, up to the await on storage.get.
UploadTracker_cancel_upload(p, id) ==
    /\ variant = "durable_object"
    /\ Ready(p)
    /\ h' = [h EXCEPT ![p] =
                [IdleFrame EXCEPT !.op = "cancel", !.upload_id = id,
                                  !.pc = "o_cancel_get"]]
    /\ UNCHANGED <<storage, r2, objects>> /\ TrackerFrozen

\* storage.get("metadata").await; `parts` holds the chunks whose objects the
\* loop has still to delete (none unless the upload is in progress).
UploadTracker_cancel_upload_get(p) ==
    /\ h[p].pc = "o_cancel_get"
    /\ LET metadata == storage[h[p].upload_id] IN
       IF metadata = NoRow THEN Finish(p, "NotFound")
       ELSE h' = [h EXCEPT ![p].pc = "o_cancel_delete",
                           ![p].metadata = metadata,
                           ![p].parts =
                              IF metadata.multipart_upload_state = "InProgress"
                              THEN metadata.chunks ELSE <<>>]
    /\ UNCHANGED <<storage, r2, objects>> /\ TrackerFrozen

\* One turn of the loop r2.delete(&chunk_key).await; after the last one,
\* self.state.storage().delete("metadata").await.
UploadTracker_cancel_upload_delete(p) ==
    /\ h[p].pc = "o_cancel_delete"
    /\ \/ /\ h[p].parts # <<>>
          /\ objects' = objects \ {ChunkObject(h[p].upload_id, Head(h[p].parts))}
          /\ h' = [h EXCEPT ![p].parts = Tail(@), ![p].calls = @ + 1]
          /\ UNCHANGED storage
       \/ /\ h[p].parts = <<>>
          /\ storage' = [storage EXCEPT ![h[p].upload_id] = NoRow]
          /\ Finish(p, "200 Upload cancelled successfully")
          /\ UNCHANGED objects
       \/ /\ Finish(p, "Err")
          /\ UNCHANGED <<storage, objects>>
    /\ UNCHANGED r2 /\ TrackerFrozen

(***************************************************************************)
(* The system.                                                             *)
(***************************************************************************)
\* Time passing with a timeout: a session still Initiated or InProgress when
\* the clock moves is cancelled.
TickExpires ==
    /\ now < MaxClock
    /\ now' = now + 1
    /\ uploads' = [id \in DOMAIN uploads |->
                     IF uploads[id] # NoRow
                        /\ uploads[id].status \in {"Initiated", "InProgress"}
                     THEN [uploads[id] EXCEPT !.status = "Cancelled"]
                     ELSE uploads[id]]
    /\ UNCHANGED <<variant, objects, upload_chunks, storage, r2, failed_parts, h>>

\* Time passes (Utc::now() is read by the handlers).
Tick ==
    /\ now < MaxClock
    /\ now' = now + 1
    /\ UNCHANGED <<variant, objects, uploads, upload_chunks, storage, r2, failed_parts, h>>

\* A mutating request arrives and runs up to its first await.
Mutate(p, Sizes, Indices, Bodies, Parts) ==
    \E id \in UploadIds :
       \/ \E total_size \in Sizes : initialize_upload(p, id, total_size)
       \/ \E chunk_index \in Indices, bytes \in Bodies :
             upload_chunk(p, id, chunk_index, bytes)
       \/ complete_upload(p, id)
       \/ cancel_upload(p, id)
       \/ \E total_size \in Sizes : handle_initiate(p, id, total_size)
       \/ \E chunk_index \in Indices, bytes \in Bodies :
             handle_upload_chunk(p, id, chunk_index, bytes)
       \/ \E parts \in Parts : handle_complete(p, id, parts)
       \/ handle_cancel(p, id)

\* A status query arrives and runs up to its first await.
Query(p) ==
    \E id \in UploadIds :
       \/ get_upload_status(p, id)
       \/ handle_status(p, id)

\* A mutating request in flight resumes after an await.
Resume(p) ==
    \/ initialize_upload_create(p)
    \/ initialize_upload_insert(p)
    \/ upload_chunk_get(p)
    \/ upload_chunk_part(p)
    \/ upload_chunk_record(p)
    \/ upload_chunk_status(p)
    \/ complete_upload_get(p)
    \/ complete_upload_chunks(p)
    \/ complete_upload_finalize(p)
    \/ complete_upload_status(p)
    \/ cancel_upload_get(p)
    \/ cancel_upload_abort(p)
    \/ cancel_upload_status(p)
    \/ handle_initiate_put(p)
    \/ handle_upload_chunk_get(p)
    \/ handle_upload_chunk_create(p)
    \/ handle_upload_chunk_part(p)
    \/ handle_upload_chunk_put(p)
    \/ handle_complete_get(p)
    \/ handle_complete_finalize(p)
    \/ handle_complete_put(p)
    \/ handle_cancel_get(p)
    \/ handle_cancel_abort(p)
    \/ handle_cancel_put(p)

\* A status query in flight resumes after its await.
Answer(p) ==
    \/ get_upload_status_get(p)
    \/ handle_status_get(p)

Init ==
    /\ variant \in {"d1", "tracker"}
    /\ now = 0
    /\ uploads = [id \in UploadIds |-> NoRow]
    /\ upload_chunks = EmptyBag
    /\ storage = [id \in UploadIds |-> NoRow]
    /\ r2 = <<>>
    /\ objects = {}
    /\ failed_parts = [id \in UploadIds |-> <<>>]
    /\ h = [p \in Procs |-> IdleFrame]

\* The operations run one at a time: one worker runs each request to its
\* response before it takes the next.
Next ==
    \/ Mutate("p1", TotalSizeInputs, ChunkIndexInputs, BodyInputs, ClientParts)
    \/ Query("p1")
    \/ Resume("p1")
    \/ Answer("p1")
    \/ Tick

Spec == Init /\ [][Next]_vars

\* Mutating requests are dispatched independently: the steps of two requests
\* interleave at their awaits.  The requests are those with a valid size, a
\* valid index and a non-empty body; time is not observed.
ConcTotalSizeInputs == {1}
ConcChunkIndexInputs == 1..MaxConcIdx
ConcBodyInputs == {1}
ConcClientParts == {<<PartDescriptor(1, Etag(1, 1))>>}

NextConc ==
    \/ \E p \in Procs :
          Mutate(p, ConcTotalSizeInputs, ConcChunkIndexInputs, ConcBodyInputs,
                 ConcClientParts)
    \/ \E p \in Procs : Resume(p)

SpecConc == Init /\ [][NextConc]_vars

\* The part numbers: one UploadChunk of the D1 handlers, for every value the
\* X-Chunk-Index header can carry up to the first one rejected, on a session
\* that initialize_upload has just created.
PartIndexInputs == 0..(MAX_CHUNK_INDEX + 1)

InitPart ==
    /\ variant = "d1"
    /\ now = 0
    /\ uploads = [id \in UploadIds |-> UploadRow("Initiated", 1, 1, 0, 0)]
    /\ upload_chunks = EmptyBag
    /\ storage = [id \in UploadIds |-> NoRow]
    /\ r2 = <<"open">>
    /\ objects = {}
    /\ failed_parts = [id \in UploadIds |-> <<>>]
    /\ h = [p \in Procs |->
              IF p = "p1"
              THEN [IdleFrame EXCEPT !.op = "init", !.upload_id = 1,
                                     !.total_size = 1, !.pc = "done",
                                     !.result = "ok", !.calls = 1]
              ELSE IdleFrame]

NextPart ==
    \/ /\ h["p1"].op = "init"
       /\ \E id \in UploadIds, chunk_index \in PartIndexInputs :
             upload_chunk("p1", id, chunk_index, 1)
    \/ upload_chunk_get("p1")
    \/ upload_chunk_part("p1")
    \/ upload_chunk_record("p1")
    \/ upload_chunk_status("p1")

SpecPart == InitPart /\ [][NextPart]_vars

\* The progress estimate: one session of the tracker, of a size that takes
\* one chunk, two, fifty, or as many as the largest file, receives its chunks
\* in order, and its status is asked for between them.
ProgressSizeInputs ==
    {1, DEFAULT_CHUNK_SIZE, DEFAULT_CHUNK_SIZE + 1, 50 * DEFAULT_CHUNK_SIZE,
     DEFAULT_MAX_FILE_SIZE}

InitProgress == Init /\ variant = "tracker"

NextProgress ==
    \/ \E id \in UploadIds, total_size \in ProgressSizeInputs :
          handle_initiate("p1", id, total_size)
    \/ handle_initiate_put("p1")
    \/ \E id \in UploadIds :
          /\ storage[id] # NoRow
          /\ Len(storage[id].chunks) < MaxProgressChunks
          /\ handle_upload_chunk("p1", id, Len(storage[id].chunks) + 1, 1)
    \/ handle_upload_chunk_get("p1")
    \/ handle_upload_chunk_create("p1")
    \/ handle_upload_chunk_part("p1")
    \/ handle_upload_chunk_put("p1")
    \/ \E id \in UploadIds : handle_status("p1", id)
    \/ handle_status_get("p1")

SpecProgress == InitProgress /\ [][NextProgress]_vars

\* Two sessions: each worker sends the requests of one session, and the steps
\* of the two interleave at their awaits.
SessionIds == {1, 2}
SessionOf == [p \in Procs |-> IF p = "p1" THEN 1 ELSE 2]

InitSessions ==
    /\ variant \in {"d1", "tracker"}
    /\ now = 0
    /\ uploads = [id \in SessionIds |-> NoRow]
    /\ upload_chunks = EmptyBag
    /\ storage = [id \in SessionIds |-> NoRow]
    /\ r2 = <<>>
    /\ objects = {}
    /\ failed_parts = [id \in SessionIds |-> <<>>]
    /\ h = [p \in Procs |-> IdleFrame]

NextSessions ==
    \/ \E p \in Procs :
          \/ initialize_upload(p, SessionOf[p], 1)
          \/ upload_chunk(p, SessionOf[p], 1, 1)
          \/ complete_upload(p, SessionOf[p])
          \/ cancel_upload(p, SessionOf[p])
          \/ get_upload_status(p, SessionOf[p])
          \/ handle_initiate(p, SessionOf[p], 1)
          \/ handle_upload_chunk(p, SessionOf[p], 1, 1)
          \/ \E parts \in ConcClientParts :
                handle_complete(p, SessionOf[p], parts)
          \/ handle_cancel(p, SessionOf[p])
          \/ handle_status(p, SessionOf[p])
    \/ \E p \in Procs : Resume(p)
    \/ \E p \in Procs : Answer(p)

SpecSessions == InitSessions /\ [][NextSessions]_vars

\* The first UploadTracker: the requests of one session, run one at a time.
\* The upload id is the caller's and is used for one session; the session
\* takes MaxObjectChunks chunks.
ObjectSizeInputs == {1, DEFAULT_MAX_FILE_SIZE + 1}
ObjectChunkInputs == {0, 1}
ObjectEtagInputs == {ObjectEtag(1), ObjectEtag(2)}

InitObject ==
    /\ variant = "durable_object"
    /\ now = 0
    /\ uploads = [id \in UploadIds |-> NoRow]
    /\ upload_chunks = EmptyBag
    /\ storage = [id \in UploadIds |-> NoRow]
    /\ r2 = <<>>
    /\ objects = {}
    /\ failed_parts = [id \in UploadIds |-> <<>>]
    /\ h = [p \in Procs |-> IdleFrame]

NextObject ==
    \/ \E id \in UploadIds, total_size \in ObjectSizeInputs,
          user_role \in UserRoleInputs :
          /\ r2 = <<>>
          /\ initiate_multipart_upload("p1", id, total_size, user_role)
    \/ initiate_multipart_upload_create("p1")
    \/ initiate_multipart_upload_put("p1")
    \/ \E id \in UploadIds, chunk_index \in ObjectChunkInputs,
          etag \in ObjectEtagInputs :
          /\ storage[id] # NoRow => Len(storage[id].chunks) < MaxObjectChunks
          /\ handle_chunk_upload("p1", id, chunk_index, 1, etag)
    \/ handle_chunk_upload_get("p1")
    \/ handle_chunk_upload_object("p1")
    \/ handle_chunk_upload_put("p1")
    \/ \E id \in UploadIds : complete_multipart_upload("p1", id)
    \/ complete_multipart_upload_get("p1")
    \/ complete_multipart_upload_chunks("p1")
    \/ complete_multipart_upload_put("p1")
    \/ \E id \in UploadIds : UploadTracker_get_upload_status("p1", id)
    \/ UploadTracker_get_upload_status_get("p1")
    \/ \E id \in UploadIds : UploadTracker_cancel_upload("p1", id)
    \/ UploadTracker_cancel_upload_get("p1")
    \/ UploadTracker_cancel_upload_delete("p1")

SpecObject == InitObject /\ [][NextObject]_vars

\* collect_part_descriptors by itself: a call on a list of at most
\* MaxRecords chunk records, in any order, each with a chunk index that
\* upload_chunk accepts and with an etag or without one.
RecordIndexInputs == {0, 1, 2, MAX_CHUNK_INDEX}
RecordInputs ==
    {UploadChunkRecord(chunk_index, 10, etag) :
        chunk_index \in RecordIndexInputs,
        etag \in {NoEtag, Etag(1, 1), Etag(2, 1)}}
ChunkListInputs ==
    UNION {[1..n -> RecordInputs] : n \in 0..MaxRecords}

InitDescriptors ==
    /\ variant = "d1"
    /\ now = 0
    /\ uploads = [id \in UploadIds |-> NoRow]
    /\ upload_chunks = EmptyBag
    /\ storage = [id \in UploadIds |-> NoRow]
    /\ r2 = <<>>
    /\ objects = {}
    /\ failed_parts = [id \in UploadIds |-> <<>>]
    /\ \E chunks \in ChunkListInputs :
          h = [p \in Procs |->
                 IF p = "p1"
                 THEN [IdleFrame EXCEPT !.op = "collect", !.pc = "collect",
                                        !.metadata = [chunks |-> chunks]]
                 ELSE IdleFrame]

\* let parts = collect_part_descriptors(&chunks)?: the call, with the
\* ValidationError of a record without etag.
CollectPartDescriptors(p) ==
    /\ h[p].pc = "collect"
    /\ h' = [h EXCEPT ![p].pc = "done",
                      ![p].result = IF HasAllEtags(h[p].metadata.chunks)
                                    THEN "ok" ELSE "ValidationError",
                      ![p].parts = IF HasAllEtags(h[p].metadata.chunks)
                                   THEN collect_part_descriptors(h[p].metadata.chunks)
                                   ELSE <<>>]
    /\ D1Unchanged /\ UNCHANGED r2 /\ Frozen

NextDescriptors == CollectPartDescriptors("p1")

SpecDescriptors == InitDescriptors /\ [][NextDescriptors]_vars

(***************************************************************************)
(* Properties of the coordinator.                                          *)
(***************************************************************************)
\* The persisted status of a session ("Absent" while it has no record).
Status(id) == IF variant = "d1" THEN uploads[id].status ELSE storage[id].status

\* The chunk indices in the persisted chunk set of a session.
ChunkSet(id) ==
    IF variant = "d1" THEN {r.chunk_index : r \in DOMAIN RowsOf(id)}
    ELSE IF storage[id] = NoRow THEN {}
    ELSE {storage[id].chunks[k] : k \in 1..Len(storage[id].chunks)}

\* What the coordinator persists of the sessions.
Persisted == <<uploads, upload_chunks, storage>>

NonTerminal == {"Initiated", "InProgress"}

\* The transitions of the state machine; a == b is "no change".
Allowed(a, b) ==
    \/ a = b
    \/ a = "Absent" /\ b = "Initiated"
    \/ a \in NonTerminal /\ b \in {"InProgress", "Completed", "Cancelled"}

\* C1: with the operations run one at a time, the persisted status of every
\* session changes only along Initiated -> InProgress, InProgress ->
\* InProgress, {Initiated, InProgress} -> Completed and {Initiated,
\* InProgress} -> Cancelled (and from no record to Initiated when the session
\* is created); once it is Completed or Cancelled it never changes again.
C1_StatusTransitions ==
    [][\A id \in UploadIds : Allowed(Status(id), Status(id)')]_vars

\* A cancellation was requested on a Completed session and was rejected.
C1_Witness ==
    /\ Status(1) = "Completed"
    /\ h["p1"].pc = "done" /\ h["p1"].op = "cancel"
    /\ h["p1"].result \in {"UploadAlreadyCompleted",
                           "409 Cannot cancel completed upload"}

\* The response that rejects a request on a session in a terminal state.
RejectionOf(status) ==
    IF status = "Completed"
    THEN {"UploadAlreadyCompleted", "409 Upload already completed"}
    ELSE {"UploadCancelled", "409 Upload was cancelled"}

\* A step of an UploadChunk or CompleteUpload request of p on a session whose
\* persisted status is terminal.
OnTerminal(p) ==
    /\ h'[p] # h[p]
    /\ h'[p].op \in {"chunk", "complete"}
    /\ Status(h'[p].upload_id) \in Terminal

\* The header and body checks the chunk handlers make before they read the
\* session: the index is within the limit (and, in the tracker, not 0), and
\* in the D1 handler the body is not empty.
WellFormed(f) ==
    f.op = "chunk" =>
        /\ f.chunk_index <= MAX_CHUNK_INDEX
        /\ IF variant = "d1" THEN f.bytes # 0 ELSE f.chunk_index # 0

\* C2 as stated: every UploadChunk or CompleteUpload on a Completed session
\* returns UploadAlreadyCompleted, and on a Cancelled session UploadCancelled;
\* the persisted session is unchanged and no backend call is made.
C2_Original ==
    [][\A p \in Procs :
          OnTerminal(p) =>
             /\ UNCHANGED <<Persisted, r2>>
             /\ h'[p].calls = 0
             /\ (h'[p].pc = "done" =>
                    h'[p].result \in RejectionOf(Status(h'[p].upload_id)))]_vars

\* C2, amended: an UploadChunk that passes the header and body checks, or a
\* CompleteUpload, on a Completed session returns UploadAlreadyCompleted, and
\* on a Cancelled session UploadCancelled; whatever the request, the persisted
\* session is unchanged and no backend call is made.
C2_TerminalRejected ==
    [][\A p \in Procs :
          OnTerminal(p) =>
             /\ UNCHANGED <<Persisted, r2>>
             /\ h'[p].calls = 0
             /\ (h'[p].pc = "done" /\ WellFormed(h'[p]) =>
                    h'[p].result \in RejectionOf(Status(h'[p].upload_id)))]_vars

\* A well-formed chunk was sent to a Cancelled session and was rejected.
C2_Witness ==
    /\ Status(1) = "Cancelled"
    /\ h["p1"].pc = "done" /\ h["p1"].op = "chunk" /\ WellFormed(h["p1"])
    /\ h["p1"].result \in RejectionOf("Cancelled")
    /\ h["p1"].calls = 0

\* C3: when the chunk handler reads a non-terminal session whose chunk set
\* already holds the request's index, it rejects the request with
\* ChunkAlreadyUploaded, makes no backend part upload and leaves the stored
\* record unchanged.
C3_DuplicateRejected ==
    [][\A p \in Procs :
          (/\ h[p].pc \in {"chunk_get", "t_chunk_get"}
           /\ h'[p] # h[p]
           /\ Status(h[p].upload_id) \in NonTerminal
           /\ h[p].chunk_index \in ChunkSet(h[p].upload_id))
          => /\ h'[p].pc = "done"
             /\ h'[p].result \in {"ChunkAlreadyUploaded", "409 Chunk already uploaded"}
             /\ h'[p].calls = 0
             /\ UNCHANGED <<Persisted, r2>>]_vars

\* C4: the persisted chunk set of a session holds at most one record per
\* chunk_index, whatever the interleaving of the chunk uploads.
C4_OneRecordPerIndex ==
    /\ \A r \in BagToSet(upload_chunks) :
          /\ CopiesIn(r, upload_chunks) = 1
          /\ \A q \in BagToSet(upload_chunks) :
                q.upload_id = r.upload_id /\ q.chunk_index = r.chunk_index => q = r
    /\ \A id \in UploadIds :
          storage[id] # NoRow =>
             \A j, k \in 1..Len(storage[id].chunks) :
                storage[id].chunks[j] = storage[id].chunks[k] => j = k

\* Two uploads of the same index have both passed the read of the session and
\* the backend part upload, and are both about to write the chunk's record.
C4_Witness ==
    /\ h["p1"].pc = "chunk_record" /\ h["p2"].pc = "chunk_record"
    /\ h["p1"].upload_id = h["p2"].upload_id
    /\ h["p1"].chunk_index = h["p2"].chunk_index

\* C5: whatever the interleaving of the steps of upload_chunk with those of
\* cancel_upload or complete_upload, once Cancelled or Completed is persisted
\* in the `uploads` row the status is not overwritten with InProgress.
C5_TerminalNotOverwritten ==
    [][\A id \in UploadIds :
          uploads[id].status \in Terminal => uploads'[id].status # "InProgress"]_vars

\* The response of an accepted chunk.
ChunkAccepted == {"ok", "200 Chunk uploaded successfully"}

\* C6: when two UploadChunk requests for different indices of a session have
\* both returned success, the persisted chunk set holds both indices.
C6_BothChunksPersisted ==
    \A p, q \in Procs :
       (/\ p # q
        /\ h[p].pc = "done" /\ h[q].pc = "done"
        /\ h[p].op = "chunk" /\ h[q].op = "chunk"
        /\ h[p].upload_id = h[q].upload_id
        /\ h[p].chunk_index # h[q].chunk_index
        /\ h[p].result \in ChunkAccepted /\ h[q].result \in ChunkAccepted)
       => {h[p].chunk_index, h[q].chunk_index} \subseteq ChunkSet(h[p].upload_id)

\* C7: the part list complete_upload passes to multipart.complete is sorted
\* by part number ascending and holds, for every chunk record of the session,
\* the part (chunk_index + 1, etag of that record), and nothing else.
C7_PartsSortedByIndex ==
    \A p \in Procs :
       h[p].pc = "complete_finalize" =>
          LET parts == h[p].parts
              rows == DOMAIN RowsOf(h[p].upload_id)
          IN /\ Len(parts) = Cardinality(rows)
             /\ \A k \in 1..(Len(parts) - 1) :
                   parts[k].part_number < parts[k + 1].part_number
             /\ \A r \in rows :
                   \E k \in 1..Len(parts) :
                      parts[k] = PartDescriptor(r.chunk_index + 1, r.etag)

\* complete_upload is about to finalize a session of three chunks, with the
\* parts 1, 2, 3.
C7_Witness ==
    /\ h["p1"].pc = "complete_finalize"
    /\ Len(h["p1"].parts) = 3
    /\ \A k \in 1..3 : h["p1"].parts[k].part_number = k

C9_RetrySendsSameParts ==
    \A p \in Procs :
       (h[p].pc = "complete_finalize" /\ failed_parts[h[p].upload_id] # <<>>)
       => h[p].parts = failed_parts[h[p].upload_id]

\* A CompleteUpload of a session of two chunks or more is about to repeat a
\* finalize call that failed.
C9_Witness ==
    /\ h["p1"].pc = "complete_finalize"
    /\ failed_parts[h["p1"].upload_id] # <<>>
    /\ Len(h["p1"].parts) >= 2

\* C10: a CompleteUpload on a non-terminal session whose chunk set is empty
\* returns ValidationError (the tracker: 400, no chunks uploaded yet), makes no
\* backend call and leaves the persisted session unchanged.
C10_EmptyCompletionRejected ==
    [][\A p \in Procs :
          (/\ h'[p] # h[p]
           /\ h'[p].op = "complete"
           /\ Status(h'[p].upload_id) \in NonTerminal
           /\ ChunkSet(h'[p].upload_id) = {})
          => /\ UNCHANGED <<Persisted, r2>>
             /\ h'[p].calls = 0
             /\ (h'[p].pc = "done" =>
                    h'[p].result \in {"ValidationError",
                                      "400 Upload has no chunks uploaded yet"})]_vars

\* A CompleteUpload on an Initiated session without chunks was rejected.
C10_Witness ==
    /\ h["p1"].pc = "done" /\ h["p1"].op = "complete"
    /\ h["p1"].result \in {"ValidationError", "400 Upload has no chunks uploaded yet"}
    /\ Status(h["p1"].upload_id) = "Initiated"
    /\ ChunkSet(h["p1"].upload_id) = {}

\* C11: when the backend abort call of a CancelUpload on a non-terminal
\* session fails, the operation goes on to persist status Cancelled instead of
\* ending with an error, so that it returns success and a later GetStatus
\* reads Cancelled.
C11_AbortFailureStillCancels ==
    [][\A p \in Procs :
          (/\ h[p].pc \in {"cancel_abort", "t_cancel_abort"}
           /\ h'[p] # h[p]
           /\ r2' = r2)
          => /\ h'[p].pc \in {"cancel_status", "t_cancel_put"}
             /\ h'[p].calls = h[p].calls + 1]_vars

\* C12: a CancelUpload on a session that is already Cancelled returns
\* success, makes no backend abort call and leaves the persisted session,
\* updated_at included, unchanged.
C12_CancelIdempotent ==
    [][\A p \in Procs :
          (/\ h[p].pc \in {"cancel_get", "t_cancel_get"}
           /\ h'[p] # h[p]
           /\ Status(h[p].upload_id) = "Cancelled")
          => /\ h'[p].pc = "done"
             /\ h'[p].result \in {"ok", "200 Upload already cancelled"}
             /\ h'[p].calls = 0
             /\ UNCHANGED <<Persisted, r2>>]_vars

\* C13: a CancelUpload on a Completed session is rejected with
\* UploadAlreadyCompleted (the tracker: 409, cannot cancel completed upload),
\* makes no backend abort call and leaves the status Completed.
C13_CancelCompletedRejected ==
    [][\A p \in Procs :
          (/\ h[p].pc \in {"cancel_get", "t_cancel_get"}
           /\ h'[p] # h[p]
           /\ Status(h[p].upload_id) = "Completed")
          => /\ h'[p].pc = "done"
             /\ h'[p].result \in {"UploadAlreadyCompleted",
                                  "409 Cannot cancel completed upload"}
             /\ h'[p].calls = 0
             /\ UNCHANGED <<Persisted, r2>>
             /\ Status(h[p].upload_id)' = "Completed"]_vars

\* A CancelUpload on a Completed session was rejected without a backend call,
\* and the backend transfer of the session is still the completed one.
C13_Witness ==
    /\ h["p1"].pc = "done" /\ h["p1"].op = "cancel"
    /\ h["p1"].result \in {"UploadAlreadyCompleted",
                           "409 Cannot cancel completed upload"}
    /\ h["p1"].calls = 0
    /\ Status(h["p1"].upload_id) = "Completed"
    /\ \E k \in 1..Len(r2) : r2[k] = "completed"

\* The part numbers of the chunk indices 0..MAX_CHUNK_INDEX are pairwise
\* distinct.
PartNumbersDistinct ==
    Cardinality({part_number(i) : i \in 0..MAX_CHUNK_INDEX}) = MAX_CHUNK_INDEX + 1

\* C14: an accepted UploadChunk with index i uploads its bytes as backend part
\* number i + 1 against the backend transfer of the session; for every i in
\* 0..MAX_CHUNK_INDEX the 16-bit part number does not wrap and lies in
\* 1..MAX_CHUNK_INDEX + 1, and distinct indices get distinct part numbers.
C14_PartNumbers ==
    /\ \A p \in Procs :
          (h[p].op = "chunk" /\ h[p].etag # NoEtag)
          => /\ h[p].chunk_index \in 0..MAX_CHUNK_INDEX
             /\ h[p].etag = Etag(h[p].chunk_index + 1, h[p].bytes)
             /\ h[p].etag[2] \in 1..(MAX_CHUNK_INDEX + 1)
             /\ h[p].etag[2] < 65536
    /\ \A p \in Procs :
          h[p].pc = "chunk_part"
          => h[p].metadata.r2_upload_id = uploads[h[p].upload_id].r2_upload_id
    /\ \A r \in BagToSet(upload_chunks) :
          r.etag = Etag(r.chunk_index + 1, r.chunk_size)
    /\ PartNumbersDistinct

\* The chunk with the largest index allowed was accepted as part
\* MAX_CHUNK_INDEX + 1 and recorded.
C14_Witness ==
    /\ h["p1"].pc = "done" /\ h["p1"].op = "chunk" /\ h["p1"].result = "ok"
    /\ h["p1"].chunk_index = MAX_CHUNK_INDEX
    /\ h["p1"].etag = Etag(MAX_CHUNK_INDEX + 1, 1)
    /\ \E r \in BagToSet(upload_chunks) : r.chunk_index = MAX_CHUNK_INDEX

\* C15: an UploadChunk of the D1 handlers that succeeds on an Initiated
\* session persists status InProgress, on an InProgress session it leaves the
\* status InProgress; in both cases updated_at is set to the time of the
\* write, the chunk is recorded with a non-empty integrity tag, and the
\* response carries the chunk index of the request and that tag.
C15_ChunkSuccessEffects ==
    [][\A p \in Procs :
          (/\ h[p].pc = "chunk_status"
           /\ h'[p].pc = "done"
           /\ h'[p].result = "ok")
          => LET id == h[p].upload_id IN
             /\ uploads[id].status \in NonTerminal
             /\ uploads' = [uploads EXCEPT ![id].status = "InProgress",
                                           ![id].updated_at = now]
             /\ uploads'[id].updated_at >= uploads[id].updated_at
             /\ h'[p].chunk_index = h[p].chunk_index
             /\ h'[p].etag # NoEtag
             /\ \E r \in BagToSet(upload_chunks') :
                   /\ r.upload_id = id
                   /\ r.chunk_index = h'[p].chunk_index
                   /\ r.etag = h'[p].etag]_vars

\* An UploadChunk succeeded on a session created at an earlier time: the
\* session is InProgress with its first chunk recorded, and updated_at is the
\* later time.
C15_Witness ==
    /\ variant = "d1"
    /\ h["p1"].pc = "done" /\ h["p1"].op = "chunk" /\ h["p1"].result = "ok"
    /\ uploads[h["p1"].upload_id].status = "InProgress"
    /\ uploads[h["p1"].upload_id].created_at = 0
    /\ uploads[h["p1"].upload_id].updated_at = 1
    /\ ChunkSet(h["p1"].upload_id) = {h["p1"].chunk_index}

\* C16: a successful InitiateUpload of the D1 handlers has opened a backend
\* multipart transfer before it persists, and persists exactly one new
\* session: status Initiated, no chunks, and the backend transfer id that
\* the open call returned (not the empty one); when the open call fails the
\* handler returns the backend error and persists no session.
C16_InitiatePersistsOneSession ==
    [][\A p \in Procs :
          /\ (/\ h[p].pc = "init_insert"
              /\ h'[p].pc = "done"
              /\ h'[p].result = "ok")
             => LET id == h[p].upload_id
                    r2_upload_id == h[p].metadata.r2_upload_id
                IN /\ h[p].calls = 1
                   /\ r2_upload_id \in 1..Len(r2)
                   /\ uploads[id] = NoRow
                   /\ uploads' = [uploads EXCEPT ![id] =
                                    UploadRow("Initiated", h[p].total_size,
                                              r2_upload_id,
                                              h[p].metadata.created_at,
                                              h[p].metadata.created_at)]
                   /\ ChunkSet(id)' = {}
                   /\ UNCHANGED <<upload_chunks, r2>>
          /\ (h[p].pc = "init_create" /\ h'[p].pc = "done")
             => /\ h'[p].result = "R2Error"
                /\ UNCHANGED <<Persisted, r2>>
                /\ uploads'[h[p].upload_id] = NoRow]_vars

\* An InitiateUpload has just succeeded: the session is Initiated, without
\* chunks, and names a backend transfer that is open.
C16_Witness ==
    /\ variant = "d1"
    /\ h["p1"].pc = "done" /\ h["p1"].op = "init" /\ h["p1"].result = "ok"
    /\ uploads[h["p1"].upload_id].status = "Initiated"
    /\ uploads[h["p1"].upload_id].r2_upload_id \in 1..Len(r2)
    /\ r2[uploads[h["p1"].upload_id].r2_upload_id] = "open"
    /\ ChunkSet(h["p1"].upload_id) = {}

FileSizeRejections == {"FileSizeExceeded", "413 File size exceeded"}

\* C17: an InitiateUpload is rejected with FileSizeExceeded exactly when its
\* total_size is greater than the maximum file size (a total_size equal to
\* the maximum is accepted); a rejected request opens no backend transfer and
\* persists no session, so no persisted session is over the maximum.
C17_FileSizeLimit ==
    [][\A p \in Procs :
          (Ready(p) /\ h'[p] # h[p] /\ h'[p].op = "init")
          => /\ (h'[p].pc = "done" /\ h'[p].result \in FileSizeRejections)
                <=> h'[p].total_size > DEFAULT_MAX_FILE_SIZE
             /\ h'[p].total_size > DEFAULT_MAX_FILE_SIZE
                => /\ h'[p].calls = 0
                   /\ UNCHANGED <<Persisted, r2>>
             /\ \A id \in UploadIds :
                   /\ uploads'[id] # NoRow
                      => uploads'[id].total_size <= DEFAULT_MAX_FILE_SIZE
                   /\ storage'[id] # NoRow
                      => storage'[id].total_size <= DEFAULT_MAX_FILE_SIZE]_vars

\* An InitiateUpload whose total_size is the maximum itself was accepted and
\* its session is persisted.
C17_Witness ==
    /\ h["p1"].pc = "done" /\ h["p1"].op = "init"
    /\ h["p1"].total_size = DEFAULT_MAX_FILE_SIZE
    /\ h["p1"].result \in {"ok", "200 Multipart upload initiated"}
    /\ Status(h["p1"].upload_id) = "Initiated"

\* C18: an InitiateUpload with total_size = 0 is rejected with
\* ValidationError before a backend transfer is opened or a session is
\* persisted, so that no persisted session has total_size = 0.
C18_ZeroSizeRejected ==
    [][\A p \in Procs :
          (Ready(p) /\ h'[p] # h[p] /\ h'[p].op = "init" /\ h'[p].total_size = 0)
          => /\ h'[p].pc = "done"
             /\ h'[p].result \in {"ValidationError", "400"}
             /\ h'[p].calls = 0
             /\ UNCHANGED <<Persisted, r2>>]_vars

NotFound == {"UploadNotFound", "404 Upload not found"}

\* A step of an UploadChunk, CompleteUpload, CancelUpload or GetStatus request
\* of p that names a session id for which no session was created.
OnAbsent(p) ==
    /\ h'[p] # h[p]
    /\ h'[p].op \in {"chunk", "complete", "cancel", "status"}
    /\ Status(h'[p].upload_id) = "Absent"

\* C19 as stated: every UploadChunk, CompleteUpload, CancelUpload and
\* GetStatus that names a session id for which no session was created
\* returns UploadNotFound, makes no backend call and creates no session.
C19_Original ==
    [][\A p \in Procs :
          OnAbsent(p) =>
             /\ UNCHANGED <<Persisted, r2>>
             /\ h'[p].calls = 0
             /\ (h'[p].pc = "done" => h'[p].result \in NotFound)]_vars

\* C19, amended: an UploadChunk that passes the header and body checks, a
\* CompleteUpload, a CancelUpload or a GetStatus that names a session id for
\* which no session was created returns UploadNotFound; whatever the request,
\* no backend call is made and no session record is created.
C19_AbsentRejected ==
    [][\A p \in Procs :
          OnAbsent(p) =>
             /\ UNCHANGED <<Persisted, r2>>
             /\ h'[p].calls = 0
             /\ \A id \in UploadIds :
                   Status(id) = "Absent" => Status(id)' = "Absent"
             /\ (h'[p].pc = "done" /\ WellFormed(h'[p]) =>
                    h'[p].result \in NotFound)]_vars

\* A well-formed chunk that names an unknown session was answered not found,
\* and there is still no session.
C19_Witness ==
    /\ h["p1"].pc = "done" /\ h["p1"].op = "chunk"
    /\ WellFormed(h["p1"])
    /\ h["p1"].result \in NotFound
    /\ h["p1"].calls = 0
    /\ Status(h["p1"].upload_id) = "Absent"
    /\ r2 = <<>>

\* An UploadChunk request of the D1 handlers arrives at p with an index over
\* the limit or with an empty body.
MalformedChunk(p) ==
    /\ variant = "d1"
    /\ Ready(p)
    /\ h'[p] # h[p]
    /\ h'[p].op = "chunk"
    /\ (h'[p].chunk_index > MAX_CHUNK_INDEX \/ h'[p].bytes = 0)

\* C20 as stated: an UploadChunk whose index exceeds the maximum or whose body
\* is empty is rejected with InvalidChunkIndex before the session store is read
\* or a backend call is made, and the session is unchanged.
C20_Original ==
    [][\A p \in Procs :
          MalformedChunk(p) =>
             /\ h'[p].pc = "done"
             /\ h'[p].result = "InvalidChunkIndex"
             /\ h'[p].calls = 0
             /\ UNCHANGED <<Persisted, r2>>]_vars

\* C20, amended: an UploadChunk whose index exceeds the maximum is rejected
\* with InvalidChunkIndex, and one with an index within the limit and an empty
\* body with ValidationError; both are rejected before the session store is
\* read or a backend call is made, and the session is unchanged.
C20_MalformedChunkRejected ==
    [][\A p \in Procs :
          MalformedChunk(p) =>
             /\ h'[p].pc = "done"
             /\ h'[p].result = IF h'[p].chunk_index > MAX_CHUNK_INDEX
                               THEN "InvalidChunkIndex" ELSE "ValidationError"
             /\ h'[p].calls = 0
             /\ UNCHANGED <<Persisted, r2>>]_vars

\* A chunk with an empty body was sent to an InProgress session and rejected
\* with ValidationError.
C20_Witness ==
    /\ variant = "d1"
    /\ h["p1"].pc = "done" /\ h["p1"].op = "chunk"
    /\ h["p1"].bytes = 0 /\ h["p1"].chunk_index <= MAX_CHUNK_INDEX
    /\ h["p1"].result = "ValidationError"
    /\ Status(h["p1"].upload_id) = "InProgress"

BackendErrors == {"R2Error", "Err"}

\* C21: when the backend part upload of an UploadChunk fails, the operation
\* returns a storage-backend error and the persisted session stays as it was:
\* the chunk index is not added, an Initiated session stays Initiated, and the
\* session still accepts that index (it is not terminal and, in the tracker,
\* the index is not among its chunks).
C21_PartFailureKeepsSession ==
    [][\A p \in Procs :
          (/\ h[p].pc \in {"chunk_part", "t_chunk_part"}
           /\ h'[p] # h[p]
           /\ h'[p].etag = NoEtag)
          => LET id == h[p].upload_id IN
             /\ h'[p].pc = "done"
             /\ h'[p].result \in BackendErrors
             /\ UNCHANGED <<Persisted, r2>>
             /\ ChunkSet(id)' = ChunkSet(id)
             /\ Status(id)' = Status(id)
             /\ Status(id)' \in NonTerminal
             /\ (variant = "tracker" => h[p].chunk_index \notin ChunkSet(id)')]_vars

\* An UploadChunk on an Initiated session failed at the part upload: the
\* session is still Initiated and has no chunks.
C21_Witness ==
    /\ h["p1"].pc = "done" /\ h["p1"].op = "chunk"
    /\ h["p1"].result \in BackendErrors
    /\ h["p1"].etag = NoEtag
    /\ h["p1"].calls = IF variant = "d1" THEN 1 ELSE 2
    /\ Status(h["p1"].upload_id) = "Initiated"
    /\ ChunkSet(h["p1"].upload_id) = {}

StatusAnswered == {"ok", "200"}

\* C22: GetStatus is read-only: no step of it changes the persisted session
\* (status, chunk set, backend transfer id, updated_at) or calls the backend,
\* and its response carries the status, the chunk indices and updated_at that
\* are persisted at that moment.
C22_StatusReadOnly ==
    [][\A p \in Procs :
          (h'[p] # h[p] /\ h'[p].op = "status")
          => /\ UNCHANGED <<Persisted, r2>>
             /\ h'[p].calls = 0
             /\ (h'[p].pc = "done" /\ h'[p].result \in StatusAnswered)
                => LET id == h'[p].upload_id IN
                   /\ h'[p].metadata.status = Status(id)
                   /\ {h'[p].metadata.chunks[k] :
                          k \in 1..Len(h'[p].metadata.chunks)} = ChunkSet(id)
                   /\ h'[p].metadata.updated_at =
                         IF variant = "d1" THEN uploads[id].updated_at
                         ELSE storage[id].updated_at]_vars

\* A GetStatus was answered at time 1 for an InProgress session that was last
\* written at time 0: the session still carries time 0.
C22_Witness ==
    /\ h["p1"].pc = "done" /\ h["p1"].op = "status"
    /\ h["p1"].result \in StatusAnswered
    /\ h["p1"].metadata.status = "InProgress"
    /\ Status(h["p1"].upload_id) = "InProgress"
    /\ now = 1
    /\ h["p1"].metadata.updated_at = 0
    /\ (IF variant = "d1" THEN uploads[h["p1"].upload_id].updated_at
        ELSE storage[h["p1"].upload_id].updated_at) = 0

Ascending(s) == \A k \in 1..(Len(s) - 1) : s[k] < s[k + 1]

\* C23: the chunk indices a GetStatus response carries are in ascending order,
\* in whatever order the chunks were accepted; so is the chunk list the
\* tracker stores and answers from.
C23_StatusChunksAscending ==
    /\ \A p \in Procs :
          (h[p].op = "status" /\ h[p].pc = "done" /\ h[p].result \in StatusAnswered)
          => /\ Ascending(h[p].metadata.chunks)
             /\ Len(h[p].metadata.chunks) = Cardinality(ChunkSet(h[p].upload_id))
    /\ \A id \in UploadIds :
          storage[id] # NoRow => Ascending(storage[id].chunks)

\* A GetStatus response lists the chunks 0 and 2, in this order, of a session
\* that has no chunk 1.
C23_Witness ==
    /\ h["p1"].op = "status" /\ h["p1"].pc = "done"
    /\ h["p1"].result \in StatusAnswered
    /\ h["p1"].metadata.chunks = <<0, 2>>

\* The number of chunks a file of total_size takes, and the percentage of
\* them that `count` chunks are.
ChunksNeeded(total_size) ==
    (total_size + DEFAULT_CHUNK_SIZE - 1) \div DEFAULT_CHUNK_SIZE

PercentOf(count, total_size) ==
    IF (100 * count) \div ChunksNeeded(total_size) > 100 THEN 100
    ELSE (100 * count) \div ChunksNeeded(total_size)

\* C24: the completion percentage that GetStatus reports for a session with
\* total_size > 0 is min(100, floor(100 * uploaded chunks / ceil(total_size /
\* chunk_size))): 0 when no chunk has been accepted, in 0..100, and never
\* less for more chunks.
C24_ProgressPercentage ==
    \A p \in Procs :
       (/\ h[p].op = "status" /\ h[p].pc = "done"
        /\ h[p].result \in StatusAnswered
        /\ h[p].metadata.total_size > 0)
       => /\ h[p].progress =
                PercentOf(Len(h[p].metadata.chunks), h[p].metadata.total_size)
          /\ h[p].metadata.chunks = <<>> => h[p].progress = 0
          /\ h[p].progress \in 0..100

C24_Witness ==
    /\ h["p1"].op = "status" /\ h["p1"].pc = "done"
    /\ h["p1"].result \in StatusAnswered
    /\ h["p1"].metadata.total_size = 50 * DEFAULT_CHUNK_SIZE
    /\ Len(h["p1"].metadata.chunks) = 29
    /\ h["p1"].progress = 57

\* The persisted record of a session (NoRow while it has none).
RecordOf(id) == IF variant = "d1" THEN uploads[id] ELSE storage[id]

\* Two sessions name different backend transfers; a session of the tracker
\* names none before its first chunk.
DistinctTransfers ==
    \A a, b \in SessionIds :
       (/\ a # b
        /\ RecordOf(a) # NoRow /\ RecordOf(b) # NoRow
        /\ variant = "tracker" => RecordOf(a).r2_upload_id # 0)
       => RecordOf(a).r2_upload_id # RecordOf(b).r2_upload_id

\* C25: a step of an operation on one session changes neither the persisted
\* record nor the chunk rows of another session, whatever the interleaving,
\* and no two sessions hold the same backend transfer id.
C25_SessionsIndependent ==
    [][/\ \A p \in Procs, b \in SessionIds :
            (h'[p] # h[p] /\ b # h'[p].upload_id)
            => /\ RecordOf(b)' = RecordOf(b)
               /\ ChunkSet(b)' = ChunkSet(b)
               /\ RowsOf(b)' = RowsOf(b)
       /\ DistinctTransfers']_vars

\* Both sessions exist, one has a chunk and the other was cancelled while a
\* request of the first is in flight.
C25_Witness ==
    /\ Status(1) = "InProgress" /\ ChunkSet(1) = {1}
    /\ Status(2) = "Cancelled" /\ ChunkSet(2) = {}
    /\ RecordOf(1).r2_upload_id # RecordOf(2).r2_upload_id
    /\ ~Ready("p1")

\* The steps that call the backend for a session: upload part, finalize and
\* abort, of either variant.
BackendCallSteps ==
    {"chunk_part", "complete_finalize", "cancel_abort",
     "t_chunk_part", "t_complete_finalize", "t_cancel_abort"}

\* C26: the backend_transfer_id of a session, once it is not empty, never
\* changes, and upload part, finalize and abort are called with a non-empty
\* backend_transfer_id.
C26_TransferIdAssignedOnce ==
    [][/\ \A id \in UploadIds :
            (RecordOf(id) # NoRow /\ RecordOf(id).r2_upload_id # 0)
            => RecordOf(id)'.r2_upload_id = RecordOf(id).r2_upload_id
       /\ \A p \in Procs :
            (h[p].pc \in BackendCallSteps /\ h'[p] # h[p])
            => h[p].metadata.r2_upload_id # 0]_vars

\* C27: a session that has been persisted is never deleted by UploadChunk,
\* CompleteUpload, CancelUpload or GetStatus, and GetStatus on it is never
\* answered UploadNotFound, also after it was completed or cancelled.
C27_SessionNeverDeleted ==
    [][/\ \A id \in UploadIds :
            RecordOf(id) # NoRow => RecordOf(id)' # NoRow
       /\ \A p \in Procs :
            (/\ h[p].op = "status" /\ ~Ready(p) /\ h'[p].pc = "done"
             /\ RecordOf(h[p].upload_id) # NoRow)
            => h'[p].result \notin NotFound \cup {"NotFound"}]_vars

\* The role may upload, by the role table of the configuration.
MayUpload(user_role) ==
    is_role_allowed(user_role) /\ has_permission(user_role, "upload")

Succeeded ==
    {"ok", "200 Chunk uploaded successfully",
     "200 Multipart upload completed successfully",
     "200 Upload cancelled successfully"}

\* The step of p ends an UploadChunk, CompleteUpload or CancelUpload on
\* session id with success.
EndsWell(p, id) ==
    /\ h[p].op \in {"chunk", "complete", "cancel"}
    /\ h[p].upload_id = id
    /\ ~Ready(p)
    /\ h'[p].pc = "done"
    /\ h'[p].result \in Succeeded

\* The Utc::now() the handler of p writes as updated_at: handle_complete
\* reads the clock before its storage.put, the others with the write.
Stamp(p) ==
    IF h[p].pc = "t_complete_put" THEN h[p].metadata.updated_at ELSE now

C30_PartDescriptors ==
    \A p \in Procs :
       (/\ h[p].op = "collect" /\ h[p].pc = "done"
        /\ HasAllEtags(h[p].metadata.chunks))
       => /\ h[p].result = "ok"
          /\ Len(h[p].parts) = Len(h[p].metadata.chunks)
          /\ \A k \in 1..Len(h[p].metadata.chunks) :
                /\ h[p].parts[k].part_number =
                      h[p].metadata.chunks[k].chunk_index + 1
                /\ h[p].parts[k].etag = h[p].metadata.chunks[k].etag

\* The records of indices 1 and 0, in this order, gave the part numbers 2
\* and 1.
C30_Witness ==
    /\ h["p1"].op = "collect" /\ h["p1"].pc = "done"
    /\ h["p1"].metadata.chunks =
          <<UploadChunkRecord(1, 10, Etag(2, 1)),
            UploadChunkRecord(0, 10, Etag(1, 1))>>
    /\ h["p1"].parts =
          <<PartDescriptor(2, Etag(2, 1)), PartDescriptor(1, Etag(1, 1))>>

(***************************************************************************)
(* CompleteUpload over stored chunk rows whose etag column may be NULL.    *)
(***************************************************************************)
\* What `upload_chunks` holds for one chunk index of the session: no row, a
\* row with an etag, or a row whose etag column is NULL (the column is
\* nullable and record_chunk binds JsValue::NULL for None).
StoredRowInputs == {"none", "etag", "null"}

StoredRows(id, kind) ==
    {[upload_id |-> id, chunk_index |-> i, chunk_size |-> 1,
      etag |-> IF kind[i] = "etag" THEN Etag(i + 1, 1) ELSE NoEtag] :
        i \in {j \in DOMAIN kind : kind[j] # "none"}}

\* A session of the D1 handlers with an open transfer and any such rows.
InitStoredRows ==
    /\ variant = "d1"
    /\ now = 0
    /\ \E status \in NonTerminal :
          uploads = [id \in UploadIds |-> UploadRow(status, 1, 1, 0, 0)]
    /\ \E kind \in [0..MaxIdx -> StoredRowInputs] :
          upload_chunks = SetToBag(StoredRows(1, kind))
    /\ storage = [id \in UploadIds |-> NoRow]
    /\ r2 = <<"open">>
    /\ objects = {}
    /\ failed_parts = [id \in UploadIds |-> <<>>]
    /\ h = [p \in Procs |-> IdleFrame]

NextStoredRows ==
    \/ \E id \in UploadIds : complete_upload("p1", id)
    \/ complete_upload_get("p1")
    \/ complete_upload_chunks("p1")
    \/ complete_upload_finalize("p1")
    \/ complete_upload_status("p1")

SpecStoredRows == InitStoredRows /\ [][NextStoredRows]_vars

\* The session of a CompleteUpload has a recorded chunk without etag.
LacksEtag(id) == ~HasAllEtags(fetch_chunks(id))

\* C31: while a recorded chunk of its session lacks an etag, a
\* CompleteUpload makes no backend call and changes neither the transfers
\* nor the session rows, and its step that builds the part list returns
\* ValidationError with no part list; so the status is not set to Completed.
C31_MissingEtagStopsCompletion ==
    [][\A p \in Procs :
          (h[p].op = "complete" /\ ~Ready(p) /\ LacksEtag(h[p].upload_id))
          => /\ r2' = r2
             /\ uploads' = uploads
             /\ h'[p].calls = 0
             /\ h[p].pc = "complete_chunks"
                => /\ h'[p].pc = "done"
                   /\ h'[p].result = "ValidationError"
                   /\ h'[p].parts = <<>>]_vars

\* A CompleteUpload on an InProgress session with a tagged chunk 0 and an
\* untagged chunk 1 returned ValidationError; the transfer is still open.
C31_Witness ==
    /\ h["p1"].op = "complete" /\ h["p1"].pc = "done"
    /\ h["p1"].result = "ValidationError"
    /\ h["p1"].calls = 0
    /\ LacksEtag(1)
    /\ Len(fetch_chunks(1)) = 2
    /\ fetch_chunks(1)[1].etag # NoEtag
    /\ uploads[1].status = "InProgress"
    /\ r2[1] = "open"

\* The backend transfer the record of a session names was finalized: a
\* multipart.complete on it returned Ok.
Finalized(id) ==
    /\ RecordOf(id).r2_upload_id \in 1..Len(r2)
    /\ r2[RecordOf(id).r2_upload_id] = "completed"

\* C32: a session's persisted status is Completed only if the finalize call
\* on the transfer its record names has returned success before.
C32_CompletedOnlyAfterFinalize ==
    \A id \in UploadIds : Status(id) = "Completed" => Finalized(id)

\* A CompleteUpload returned success and left the session Completed.
C32_Witness ==
    /\ \E p \in Procs :
          /\ h[p].op = "complete" /\ h[p].pc = "done"
          /\ h[p].result \in Succeeded
          /\ h[p].calls = 1
    /\ Status(1) = "Completed"
    /\ Finalized(1)

\* The chunk indices (part number - 1) of a part list.
IndicesOf(parts) == {parts[k].part_number - 1 : k \in 1..Len(parts)}

\* The step of p is complete_upload's update_upload_status(Completed) on
\* session id, after its multipart.complete returned Ok.
MarksCompleted(p, id) ==
    /\ h[p].pc = "complete_status"
    /\ h[p].upload_id = id
    /\ uploads[id] # NoRow
    /\ uploads'[id].status = "Completed"

\* C33: in the D1 handlers, when a CompleteUpload persists Completed the
\* persisted chunk set is the set of chunk indices it sent in its successful
\* finalize call, and no step changes the chunk rows of a session whose
\* transfer was finalized.
C33_CompletedChunkSetIsFinalized ==
    [][variant = "d1"
       => \A id \in UploadIds :
             /\ \A p \in Procs :
                   MarksCompleted(p, id) => ChunkSet(id)' = IndicesOf(h[p].parts)
             /\ (uploads[id] # NoRow /\ Finalized(id))
                => RowsOf(id)' = RowsOf(id)]_vars

\* Serial case: a CompleteUpload finalized chunks 1 and 2 and persisted
\* Completed with exactly those chunks recorded.
C33_Witness ==
    /\ variant = "d1"
    /\ \E p \in Procs :
          /\ h[p].op = "complete" /\ h[p].pc = "done" /\ h[p].result = "ok"
    /\ Status(1) = "Completed"
    /\ Finalized(1)
    /\ ChunkSet(1) = {1, 2}

\* The step of p is upload_chunk's status write on session id failing after
\* its record_chunk succeeded.
StatusWriteFails(p, id) ==
    /\ h[p].pc = "chunk_status"
    /\ h[p].upload_id = id
    /\ h'[p].result = "DatabaseError"

C35_CompletedHasChunks ==
    \A id \in UploadIds : Status(id) = "Completed" => ChunkSet(id) # {}

\* A CompleteUpload on a session without chunks was rejected and the session
\* is still Initiated with an empty chunk set.
C35_Witness ==
    /\ h["p1"].op = "complete" /\ h["p1"].pc = "done"
    /\ h["p1"].result \in {"ValidationError",
                           "400 Upload has no chunks uploaded yet"}
    /\ h["p1"].calls = 0
    /\ Status(1) = "Initiated"
    /\ ChunkSet(1) = {}

\* The step of p is the storage.get of an UploadChunk with an index other
\* than 1 that finds a session of the tracker whose r2_upload_id is empty.
ChunkBeforeTransfer(p) ==
    /\ h[p].op = "chunk" /\ h[p].pc = "t_chunk_get"
    /\ h'[p] # h[p]
    /\ h[p].chunk_index # 1
    /\ storage[h[p].upload_id] # NoRow
    /\ storage[h[p].upload_id].r2_upload_id = 0

InsertFails(p) ==
    /\ h[p].pc = "init_insert"
    /\ h'[p].pc = "done"
    /\ h'[p].result # "ok"

\* The transfers no session record names.
Unreferenced ==
    {t \in 1..Len(r2) :
        \A id \in UploadIds :
           uploads[id] = NoRow \/ uploads[id].r2_upload_id # t}

\* C37: when initialize_upload has opened the backend transfer and its
\* create_upload fails, the operation returns DatabaseError, no session
\* record exists for the generated id, and the transfer it opened stays
\* open with no session naming it.
C37_FailedInsertLeavesTransfer ==
    [][\A p \in Procs :
          InsertFails(p)
          => /\ h'[p].result = "DatabaseError"
             /\ h'[p].calls = 1
             /\ uploads'[h[p].upload_id] = NoRow
             /\ r2' = r2
             /\ r2'[h[p].metadata.r2_upload_id] = "open"
             /\ h[p].metadata.r2_upload_id \in Unreferenced']_vars

\* InitiateUpload returned DatabaseError: there is no session record and
\* one open transfer that nothing references.
C37_Witness ==
    /\ variant = "d1"
    /\ h["p1"].op = "init" /\ h["p1"].pc = "done"
    /\ h["p1"].result = "DatabaseError"
    /\ uploads[1] = NoRow
    /\ r2 = <<"open">>
    /\ Unreferenced = {1}

\* The operation whose success writes a status.
WriterOf(status) ==
    CASE status = "InProgress" -> "chunk"
      [] status = "Completed" -> "complete"
      [] status = "Cancelled" -> "cancel"
      [] OTHER -> "none"

\* C38: the persisted status of an existing session changes only in the
\* step that ends a caller's operation on that session with success: to
\* InProgress an UploadChunk, to Completed a CompleteUpload, to Cancelled a
\* CancelUpload; every other step (a clock tick, a status query, a rejected
\* or failed operation) leaves it as it is, so a session in Initiated or
\* InProgress stays there as long as no such operation succeeds.
C38_StatusChangesOnlyByOperation ==
    [][\A id \in UploadIds :
          (RecordOf(id) # NoRow /\ Status(id)' # Status(id))
          => \E p \in Procs :
                /\ EndsWell(p, id)
                /\ h[p].op = WriterOf(Status(id)')]_vars

\* The clock moved after a chunk was accepted and a status query was
\* answered: the session is still InProgress.
C38_Witness ==
    /\ now = MaxClock
    /\ h["p1"].op = "status" /\ h["p1"].pc = "done"
    /\ h["p1"].result \in StatusAnswered
    /\ Status(1) = "InProgress"
    /\ RecordOf(1).updated_at < now

====
